---- MODULE Spec2Model ----
(***************************************************************************)
(* Model of the tournament scheduler (tournamentScheduler.ts):             *)
(* scheduleMatches and rescheduleMatches as step machines over the state   *)
(* their loops keep (team states, court states, ready queue, event list,   *)
(* schedule, simulated clock).  Times are whole minutes.                   *)
(* The pool functions of poolDistribution.ts are modelled at the end.      *)
(***************************************************************************)
EXTENDS Integers, Sequences, FiniteSets, TLC

VARIABLES
    mode,        \* "schedule" | "reschedule": the entry point that was called
    matches,     \* argument matches: sequence of Match records
    courts,      \* argument courts: sequence of court ids
    config,      \* argument config
    clock,       \* what `new Date()` returns during the call
    pc,          \* position in the function: "start" | "loop" | "verify" | "done"
    simTime,     \* currentTime (scheduleMatches) / simTime (rescheduleMatches)
    teamStates,  \* Map teamId -> TeamState, a function on the tracked team ids
    courtStates, \* CourtState[], in the order of courts
    remaining,   \* matchMap: match id -> remainingDependencies
    queue,       \* MatchQueue.tasks, as match ids
    events,      \* Event[], kept sorted by time
    schedule,    \* ScheduledMatch[] in the order of placement
    result,      \* what the call produced: kind "none" | "ok" | "error"
    poolArgs,    \* poolDistribution.ts: the function called and its arguments
    pools,       \* snakeSeeding: Team[][], the seeds placed in each pool so far
    teamIndex,   \* snakeSeeding: index of the next team to place
    round        \* snakeSeeding: number of passes over the pools made so far

vars == <<mode, matches, courts, config, clock, pc, simTime, teamStates, courtStates,
          remaining, queue, events, schedule, result, poolArgs, pools, teamIndex, round>>

(* the state of poolDistribution.ts, which the scheduler never touches *)
poolVars == <<poolArgs, pools, teamIndex, round>>

----------------------------------------------------------------------------
(* Bounds of the explored inputs *)

MaxCourts == 2
MaxRest == 2
MaxSetup == 1
MaxDuration == 2
MaxRound == 2

(* null of TeamState.currentMatch / CourtState.currentMatch; match ids are >= 1 *)
Null == 0

(* new Date(8640000000000000): later than every time the model reaches *)
MaxDate == 1000000000

MatchIdList == <<1, 2, 10>>
MatchIds == {MatchIdList[i] : i \in 1..Len(MatchIdList)}

----------------------------------------------------------------------------
(* Generic helpers *)

Range(s) == {s[i] : i \in 1..Len(s)}

Max2(a, b) == IF a >= b THEN a ELSE b

RECURSIVE ToStr(_)
(* String(id) for a non-negative integer id: its decimal digits *)
ToStr(n) == IF n < 10 THEN <<n>> ELSE ToStr(n \div 10) \o <<n % 10>>

RECURSIVE LocaleCompare(_, _)
(* a.localeCompare(b) on digit strings: negative, zero or positive *)
LocaleCompare(a, b) ==
    IF a = <<>> /\ b = <<>> THEN 0
    ELSE IF a = <<>> THEN -1
    ELSE IF b = <<>> THEN 1
    ELSE IF Head(a) # Head(b) THEN Head(a) - Head(b)
    ELSE LocaleCompare(Tail(a), Tail(b))

MatchById(ms, id) == ms[CHOOSE i \in 1..Len(ms) : ms[i].id = id]

HasMatch(ms, id) == \E i \in 1..Len(ms) : ms[i].id = id

----------------------------------------------------------------------------
(* getTeamIds, isTeamAvailable, areTeamsAvailable *)

IsTruthy(t) == t # ""

GetTeamIds(match) ==
    (IF IsTruthy(match.team1) THEN <<match.team1>> ELSE <<>>)
    \o (IF IsTruthy(match.team2) THEN <<match.team2>> ELSE <<>>)

(* variant: the team's current match is not looked at *)
IsTeamAvailable_IgnoringCurrentMatch(teamId, time, ts) ==
    IF teamId \notin DOMAIN ts THEN TRUE
    ELSE ts[teamId].availableAt <= time

IsTeamAvailable(teamId, time, ts) ==
    IF teamId \notin DOMAIN ts THEN TRUE
    ELSE ts[teamId].currentMatch = Null /\ ts[teamId].availableAt <= time

AreTeamsAvailable(match, time, ts) ==
    \A teamId \in Range(GetTeamIds(match)) : IsTeamAvailable(teamId, time, ts)

(* variant: only the first court of the list is ever offered *)
FindAvailableCourt_FirstCourtOnly(time, cs) ==
    IF cs = <<>> THEN [court |-> Null, availableAt |-> MaxDate]
    ELSE IF cs[1].availableAt <= time /\ cs[1].currentMatch = Null
    THEN [court |-> 1, availableAt |-> time]
    ELSE [court |-> 1, availableAt |-> cs[1].availableAt]

(* variant: of the idle courts the last one of the list is offered *)
FindAvailableCourt_LastIdle(time, cs) ==
    LET idle == {i \in 1..Len(cs) : cs[i].availableAt <= time /\ cs[i].currentMatch = Null}
        cand == {i \in 1..Len(cs) : cs[i].availableAt < MaxDate}
        early == {i \in cand : \A j \in cand : cs[i].availableAt <= cs[j].availableAt}
    IN  IF idle # {}
        THEN [court |-> CHOOSE i \in idle : \A j \in idle : i >= j, availableAt |-> time]
        ELSE IF cand # {}
        THEN LET e == CHOOSE i \in early : \A j \in early : i <= j
             IN [court |-> e, availableAt |-> cs[e].availableAt]
        ELSE [court |-> Null, availableAt |-> MaxDate]

(* findAvailableCourt: index of the court in courtStates and the time offered *)
FindAvailableCourt(time, cs) ==
    LET idle == {i \in 1..Len(cs) : cs[i].availableAt <= time /\ cs[i].currentMatch = Null}
        cand == {i \in 1..Len(cs) : cs[i].availableAt < MaxDate}
        early == {i \in cand : \A j \in cand : cs[i].availableAt <= cs[j].availableAt}
    IN  IF idle # {}
        THEN [court |-> CHOOSE i \in idle : \A j \in idle : i <= j, availableAt |-> time]
        ELSE IF cand # {}
        THEN LET e == CHOOSE i \in early : \A j \in early : i <= j
             IN [court |-> e, availableAt |-> cs[e].availableAt]
        ELSE [court |-> Null, availableAt |-> MaxDate]

RECURSIVE EarliestOver(_, _, _)
EarliestOver(teamIds, earliestStart, ts) ==
    IF teamIds = <<>> THEN earliestStart
    ELSE LET t == Head(teamIds)
         IN EarliestOver(Tail(teamIds),
                IF t \in DOMAIN ts /\ ts[t].availableAt > earliestStart
                THEN ts[t].availableAt ELSE earliestStart,
                ts)

CalculateEarliestStartTime(match, currentTime, ts) ==
    EarliestOver(GetTeamIds(match), currentTime, ts)

(* ensureTeamState: the map with teamId tracked *)
EnsureTeamState(teamId, ts, initialTime) ==
    IF teamId \in DOMAIN ts THEN ts
    ELSE [t \in DOMAIN ts \cup {teamId} |->
            IF t = teamId THEN [availableAt |-> initialTime, currentMatch |-> Null]
            ELSE ts[t]]

----------------------------------------------------------------------------
(* MatchQueue *)

(* variant: ids compared as numbers *)
TaskCompare_NumericIds(ms, a, b) ==
    LET ma == MatchById(ms, a)
        mb == MatchById(ms, b)
    IN IF ma.round # mb.round THEN ma.round - mb.round ELSE a - b

(* variant: the round is not compared *)
TaskCompare_IgnoringRound(ms, a, b) == LocaleCompare(ToStr(a), ToStr(b))

TaskCompare(ms, a, b) ==
    LET ma == MatchById(ms, a)
        mb == MatchById(ms, b)
    IN IF ma.round # mb.round THEN ma.round - mb.round
       ELSE LocaleCompare(ToStr(a), ToStr(b))

RECURSIVE InsertTask(_, _, _)
(* x placed behind every task that does not compare greater: a stable sort step *)
InsertTask(ms, sorted, x) ==
    IF sorted = <<>> THEN <<x>>
    ELSE IF TaskCompare(ms, sorted[Len(sorted)], x) <= 0 THEN Append(sorted, x)
    ELSE Append(InsertTask(ms, SubSeq(sorted, 1, Len(sorted) - 1), x), sorted[Len(sorted)])

RECURSIVE SortTasks(_, _)
SortTasks(ms, tasks) ==
    IF tasks = <<>> THEN <<>>
    ELSE InsertTask(ms, SortTasks(ms, SubSeq(tasks, 1, Len(tasks) - 1)), tasks[Len(tasks)])

(* variant: the task is pushed and the list is left as it is *)
Enqueue_WithoutSort(ms, tasks, id) == Append(tasks, id)

Enqueue(ms, tasks, id) == SortTasks(ms, Append(tasks, id))

(* variant: the task stays in the list *)
Remove_KeepingTask(tasks, id) == tasks

Remove(tasks, id) ==
    IF \E i \in 1..Len(tasks) : tasks[i] = id
    THEN LET index == CHOOSE i \in 1..Len(tasks) :
                         tasks[i] = id /\ \A j \in 1..(i - 1) : tasks[j] # id
         IN SubSeq(tasks, 1, index - 1) \o SubSeq(tasks, index + 1, Len(tasks))
    ELSE tasks

----------------------------------------------------------------------------
(* Event list and schedule ordering *)

RECURSIVE InsertEvent(_, _)
InsertEvent(sorted, ev) ==
    IF sorted = <<>> THEN <<ev>>
    ELSE IF sorted[Len(sorted)].time - ev.time <= 0 THEN Append(sorted, ev)
    ELSE Append(InsertEvent(SubSeq(sorted, 1, Len(sorted) - 1), ev), sorted[Len(sorted)])

RECURSIVE SortEvents(_)
(* events.sort((a, b) => a.time - b.time), stable *)
SortEvents(evs) ==
    IF evs = <<>> THEN <<>>
    ELSE InsertEvent(SortEvents(SubSeq(evs, 1, Len(evs) - 1)), evs[Len(evs)])

RECURSIVE InsertScheduled(_, _)
InsertScheduled(sorted, s) ==
    IF sorted = <<>> THEN <<s>>
    ELSE IF sorted[Len(sorted)].startTime - s.startTime <= 0 THEN Append(sorted, s)
    ELSE Append(InsertScheduled(SubSeq(sorted, 1, Len(sorted) - 1), s), sorted[Len(sorted)])

RECURSIVE SortSchedule(_)
(* schedule.sort((a, b) => a.startTime - b.startTime), stable *)
SortSchedule(sch) ==
    IF sch = <<>> THEN <<>>
    ELSE InsertScheduled(SortSchedule(SubSeq(sch, 1, Len(sch) - 1)), sch[Len(sch)])

----------------------------------------------------------------------------
(* Dependency graph *)

(* matchMap: remainingDependencies of every match of ms *)
BuildMatchMap(ms) ==
    [id \in {ms[i].id : i \in 1..Len(ms)} |-> MatchById(ms, id).dependencies]

(* dependents.get(depId), in insertion order *)
Dependents(ms, depId) ==
    LET sel == SelectSeq(ms, LAMBDA m : depId \in m.dependencies)
    IN [i \in 1..Len(sel) |-> sel[i].id]

RECURSIVE InitialQueue_Everything(_, _, _)
(* variant: every task is enqueued, whatever its remaining dependencies *)
InitialQueue_Everything(ms, rem, ids) ==
    IF ids = <<>> THEN <<>>
    ELSE Enqueue(ms, InitialQueue_Everything(ms, rem, SubSeq(ids, 1, Len(ids) - 1)),
                 ids[Len(ids)])

RECURSIVE InitialQueue(_, _, _)
(* enqueue, in matchMap order, every task with no remaining dependency *)
InitialQueue(ms, rem, ids) ==
    IF ids = <<>> THEN <<>>
    ELSE LET q == InitialQueue(ms, rem, SubSeq(ids, 1, Len(ids) - 1))
             id == ids[Len(ids)]
         IN IF rem[id] = {} THEN Enqueue(ms, q, id) ELSE q

IdsOf(ms) == [i \in 1..Len(ms) |-> ms[i].id]

----------------------------------------------------------------------------
(* One MATCH_END event: free the court and the teams, unlock the dependents *)

(* variant: the court is free again at the end of the match, without setup time *)
FreeCourt_WithoutSetup(cs, ev, courtSetupTime) ==
    IF \E i \in 1..Len(cs) : cs[i].courtId = ev.courtId
    THEN LET c == CHOOSE i \in 1..Len(cs) :
                     cs[i].courtId = ev.courtId /\ \A j \in 1..(i - 1) : cs[j].courtId # ev.courtId
         IN [cs EXCEPT ![c] = [courtId |-> cs[c].courtId,
                               availableAt |-> ev.time,
                               currentMatch |-> Null]]
    ELSE cs

FreeCourt(cs, ev, courtSetupTime) ==
    IF \E i \in 1..Len(cs) : cs[i].courtId = ev.courtId
    THEN LET c == CHOOSE i \in 1..Len(cs) :
                     cs[i].courtId = ev.courtId /\ \A j \in 1..(i - 1) : cs[j].courtId # ev.courtId
         IN [cs EXCEPT ![c] = [courtId |-> cs[c].courtId,
                               availableAt |-> ev.time + courtSetupTime,
                               currentMatch |-> Null]]
    ELSE cs

(* variant: the team's current match is left in place when its match ends *)
FreeTeam_KeepingCurrentMatch(ts, teamId, restEndTime, initialTime) ==
    LET e == EnsureTeamState(teamId, ts, initialTime)
    IN [e EXCEPT ![teamId] = [availableAt |-> restEndTime,
                              currentMatch |-> e[teamId].currentMatch]]

FreeTeam(ts, teamId, restEndTime, initialTime) ==
    [EnsureTeamState(teamId, ts, initialTime) EXCEPT
        ![teamId] = [availableAt |-> restEndTime, currentMatch |-> Null]]

(* variant: the teams are available again at the end of the match, without rest *)
FreeTeams_WithoutRest(ts, ev, restTime, initialTime) ==
    FreeTeam(FreeTeam(ts, ev.team1Id, ev.time, initialTime), ev.team2Id, ev.time, initialTime)

FreeTeams(ts, ev, restTime, initialTime) ==
    FreeTeam(FreeTeam(ts, ev.team1Id, ev.time + restTime, initialTime),
             ev.team2Id, ev.time + restTime, initialTime)

RECURSIVE UnlockDependents_WithoutCount(_, _, _, _, _)
(* variant: every dependent is enqueued, whatever is left in its set *)
UnlockDependents_WithoutCount(ms, deps, matchId, rem, q) ==
    IF deps = <<>> THEN [remaining |-> rem, queue |-> q]
    ELSE LET d == Head(deps)
         IN IF d \in DOMAIN rem
            THEN UnlockDependents_WithoutCount(ms, Tail(deps), matchId,
                     [rem EXCEPT ![d] = rem[d] \ {matchId}], Enqueue(ms, q, d))
            ELSE UnlockDependents_WithoutCount(ms, Tail(deps), matchId, rem, q)

RECURSIVE UnlockDependents(_, _, _, _, _)
(* returns the matchMap and the queue after the loop over deps *)
UnlockDependents(ms, deps, matchId, rem, q) ==
    IF deps = <<>> THEN [remaining |-> rem, queue |-> q]
    ELSE LET d == Head(deps)
         IN IF d \in DOMAIN rem
            THEN LET rem2 == [rem EXCEPT ![d] = rem[d] \ {matchId}]
                 IN UnlockDependents(ms, Tail(deps), matchId, rem2,
                        IF rem2[d] = {} THEN Enqueue(ms, q, d) ELSE q)
            ELSE UnlockDependents(ms, Tail(deps), matchId, rem, q)

EventDue == events # <<>> /\ events[1].time <= simTime

(* variant: the clock is read even when config.startTime is given *)
StartTimeOf_AlwaysNow(cfg, now) == now

(* scheduleMatches: config.startTime || new Date() *)
StartTimeOf(cfg, now) == IF cfg.hasStartTime THEN cfg.startTime ELSE now

(* ensureTeamState's initialTime: startTime in scheduleMatches, currentTime in rescheduleMatches *)
InitialTime ==
    IF mode = "schedule" THEN StartTimeOf(config, clock) ELSE config.currentTime

(* the matches the dependency graph is built from: all of them in scheduleMatches,
   the ones not reported completed in rescheduleMatches *)
CompletedMatchIds(cfg) == {cfg.completedMatches[i].matchId : i \in 1..Len(cfg.completedMatches)}

PendingOf(ms, cfg) == SelectSeq(ms, LAMBDA m : m.id \notin CompletedMatchIds(cfg))

PendingMatches == IF mode = "schedule" THEN matches ELSE PendingOf(matches, config)

ProcessEvent ==
    /\ pc = "loop"
    /\ EventDue
    /\ LET event == events[1]
           u == UnlockDependents(matches, Dependents(PendingMatches, event.matchId),
                                 event.matchId, remaining, queue)
       IN /\ events' = Tail(events)
          /\ courtStates' = FreeCourt(courtStates, event, config.courtSetupTime)
          /\ teamStates' = FreeTeams(teamStates, event, config.restTime, InitialTime)
          /\ remaining' = u.remaining
          /\ queue' = u.queue
    /\ UNCHANGED <<poolVars, mode, matches, courts, config, clock, pc, simTime, schedule, result>>

----------------------------------------------------------------------------
(* Placement pass *)

(* scheduleMatches: Math.max(courtResult.availableAt, teamEarliestStart) *)
ScheduleStartTime(match, time, ts, cs) ==
    Max2(FindAvailableCourt(time, cs).availableAt, CalculateEarliestStartTime(match, time, ts))

(* rescheduleMatches: Math.max(courtResult.availableAt, teamEarliestStart, currentTime) *)
RescheduleStartTime(match, time, ts, cs, currentTime) ==
    Max2(ScheduleStartTime(match, time, ts, cs), currentTime)

(* variant: the start is the chosen court's own availableAt *)
ActualStartTime_CourtRecord(match, time, ts, cs) ==
    cs[FindAvailableCourt(time, cs).court].availableAt

ActualStartTime(match, time, ts, cs) ==
    IF mode = "schedule" THEN ScheduleStartTime(match, time, ts, cs)
    ELSE RescheduleStartTime(match, time, ts, cs, config.currentTime)

(* variant: a start later than `time` is not deferred *)
CanPlace_WithoutDeferral(match, time, ts, cs) ==
    /\ AreTeamsAvailable(match, time, ts)
    /\ FindAvailableCourt(time, cs).court # Null

(* the task passes every `continue` of the pass *)
CanPlace(match, time, ts, cs) ==
    /\ AreTeamsAvailable(match, time, ts)
    /\ FindAvailableCourt(time, cs).court # Null
    /\ ~(ActualStartTime(match, time, ts, cs) > time)

Placeable(i) == CanPlace(MatchById(matches, queue[i]), simTime, teamStates, courtStates)

RECURSIVE OccupyTeams(_, _, _, _)
OccupyTeams(ts, teamIds, matchId, initialTime) ==
    IF teamIds = <<>> THEN ts
    ELSE LET t == Head(teamIds)
             e == EnsureTeamState(t, ts, initialTime)
         IN OccupyTeams([e EXCEPT ![t] = [availableAt |-> e[t].availableAt,
                                          currentMatch |-> matchId]],
                        Tail(teamIds), matchId, initialTime)

PlaceMatch ==
    /\ pc = "loop"
    /\ ~EventDue
    /\ \E i \in 1..Len(queue) :
        /\ Placeable(i)
        /\ \A j \in 1..(i - 1) : ~Placeable(j)
        /\ LET match == MatchById(matches, queue[i])
               courtResult == FindAvailableCourt(simTime, courtStates)
               actualStartTime == ActualStartTime(match, simTime, teamStates, courtStates)
               endTime == actualStartTime + match.duration
               teamIds == GetTeamIds(match)
               courtId == courtStates[courtResult.court].courtId
           IN /\ schedule' = Append(schedule, [matchId |-> match.id, courtId |-> courtId,
                                               startTime |-> actualStartTime, endTime |-> endTime,
                                               round |-> match.round])
              /\ courtStates' = [courtStates EXCEPT ![courtResult.court] =
                                    [courtId |-> courtId, availableAt |-> endTime,
                                     currentMatch |-> match.id]]
              /\ teamStates' = OccupyTeams(teamStates, teamIds, match.id, InitialTime)
              /\ events' = SortEvents(Append(events,
                               [time |-> endTime, matchId |-> match.id, courtId |-> courtId,
                                team1Id |-> teamIds[1], team2Id |-> teamIds[2]]))
              /\ queue' = Remove(queue, match.id)
    /\ UNCHANGED <<poolVars, mode, matches, courts, config, clock, pc, simTime, remaining, result>>

----------------------------------------------------------------------------
(* Time advance after a pass that placed nothing *)

(* earliest availableAt after `time` over the team and court states, MaxDate if none *)
(* variant: an availableAt equal to `time` counts as later than `time` *)
NextAvailability_NoProgress(time, ts, cs) ==
    LET later == {ts[t].availableAt : t \in DOMAIN ts}
                 \cup {cs[i].availableAt : i \in 1..Len(cs)}
        cand == {x \in later : x >= time /\ x < MaxDate}
    IN IF cand = {} THEN MaxDate ELSE CHOOSE x \in cand : \A y \in cand : x <= y

(* variant: only the courts are looked at, the teams' rest ends are not *)
NextAvailability_CourtsOnly(time, ts, cs) ==
    LET later == {cs[i].availableAt : i \in 1..Len(cs)}
        cand == {x \in later : x > time /\ x < MaxDate}
    IN IF cand = {} THEN MaxDate ELSE CHOOSE x \in cand : \A y \in cand : x <= y

NextAvailability(time, ts, cs) ==
    LET later == {ts[t].availableAt : t \in DOMAIN ts}
                 \cup {cs[i].availableAt : i \in 1..Len(cs)}
        cand == {x \in later : x > time /\ x < MaxDate}
    IN IF cand = {} THEN MaxDate ELSE CHOOSE x \in cand : \A y \in cand : x <= y

(* rescheduleMatches also considers config.currentTime *)
NextTime(time, ts, cs) ==
    LET n == NextAvailability(time, ts, cs)
    IN IF mode = "reschedule" /\ config.currentTime > time /\ config.currentTime < n
       THEN config.currentTime ELSE n

AdvanceTime ==
    /\ pc = "loop"
    /\ ~EventDue
    /\ \A i \in 1..Len(queue) : ~Placeable(i)
    /\ IF events # <<>>
       THEN simTime' = events[1].time /\ pc' = "loop" /\ result' = result
       ELSE IF queue # <<>>
       THEN LET nextTime == NextTime(simTime, teamStates, courtStates)
            IN IF nextTime < MaxDate
               THEN simTime' = nextTime /\ pc' = "loop" /\ result' = result
               ELSE /\ simTime' = simTime
                    /\ pc' = "done"
                    /\ result' = [kind |-> "error",
                                  message |-> IF mode = "schedule"
                                              THEN "Scheduling deadlock detected"
                                              ELSE "Scheduling deadlock detected in reschedule mode"]
       ELSE simTime' = simTime /\ pc' = "verify" /\ result' = result
    /\ UNCHANGED <<poolVars, mode, matches, courts, config, clock, teamStates, courtStates,
                   remaining, queue, events, schedule>>

----------------------------------------------------------------------------
(* scheduleMatches: validation and initialisation *)

NoTeams == [t \in {} |-> Null]

InitialCourtStates(cts, availableAt) ==
    [i \in 1..Len(cts) |-> [courtId |-> cts[i], availableAt |-> availableAt, currentMatch |-> Null]]

Error(message) == [kind |-> "error", message |-> message]

(* variant: the courts are looked at before the matches *)
ConfigurationError_CourtsFirst(ms, cts) ==
    IF Len(cts) = 0 THEN "No courts available"
    ELSE IF Len(ms) = 0 THEN "No matches to schedule"
    ELSE ""

(* the message of the error thrown by the validation at the top of
   scheduleMatches and of rescheduleMatches, "" when nothing is thrown *)
ConfigurationError(ms, cts) ==
    IF Len(ms) = 0 THEN "No matches to schedule"
    ELSE IF Len(cts) = 0 THEN "No courts available"
    ELSE ""

BeginSchedule ==
    /\ pc = "start"
    /\ mode = "schedule"
    /\ IF ConfigurationError(matches, courts) # ""
       THEN /\ result' = Error(ConfigurationError(matches, courts))
            /\ pc' = "done"
            /\ UNCHANGED <<simTime, teamStates, courtStates, remaining, queue, events, schedule>>
       ELSE LET matchMap == BuildMatchMap(matches)
                q == InitialQueue(matches, matchMap, IdsOf(matches))
            IN /\ schedule' = <<>>
               /\ teamStates' = NoTeams
               /\ courtStates' = InitialCourtStates(courts, StartTimeOf(config, clock))
               /\ remaining' = matchMap
               /\ queue' = q
               /\ events' = <<>>
               /\ simTime' = StartTimeOf(config, clock)
               /\ pc' = IF q # <<>> THEN "loop" ELSE "verify"
               /\ result' = result
    /\ UNCHANGED <<poolVars, mode, matches, courts, config, clock>>

----------------------------------------------------------------------------
(* scheduleMatches: completeness check, summary and return *)

RECURSIVE LatestEnd(_, _)
(* schedule.reduce((max, s) => s.endTime > max ? s.endTime : max, initial) *)
LatestEnd(sch, max) ==
    IF sch = <<>> THEN max
    ELSE LatestEnd(Tail(sch), IF Head(sch).endTime > max THEN Head(sch).endTime ELSE max)

ScheduleResult(sch, startTime) ==
    LET endTime == LatestEnd(sch, startTime)
    IN [kind |-> "ok",
        schedule |-> SortSchedule(sch),
        summary |-> [totalMatches |-> Len(sch),
                     totalDuration |-> endTime - startTime,
                     courtsUsed |-> Cardinality({sch[i].courtId : i \in 1..Len(sch)}),
                     endTime |-> endTime]]

(* variant: the completeness check is skipped *)
AllScheduled_Unchecked(sch, ms) == TRUE

(* schedule.length === matches.length *)
AllScheduled(sch, ms) == Len(sch) = Len(ms)

FinishSchedule ==
    /\ pc = "verify"
    /\ mode = "schedule"
    /\ result' = IF ~AllScheduled(schedule, matches)
                 THEN Error("Failed to schedule all matches")
                 ELSE ScheduleResult(schedule, StartTimeOf(config, clock))
    /\ pc' = "done"
    /\ UNCHANGED <<poolVars, mode, matches, courts, config, clock, simTime, teamStates, courtStates,
                   remaining, queue, events, schedule>>

----------------------------------------------------------------------------
(* rescheduleMatches: validation, timeline painting, queue seeding *)

RoundOf(ms, id) == IF HasMatch(ms, id) THEN MatchById(ms, id).round ELSE 0

(* the schedule seeded with the completed matches *)
CompletedEntries(ms, completed) ==
    [i \in 1..Len(completed) |->
        [matchId |-> completed[i].matchId, courtId |-> completed[i].courtId,
         startTime |-> completed[i].actualStartTime, endTime |-> completed[i].actualEndTime,
         round |-> RoundOf(ms, completed[i].matchId)]]

(* variant: the court is free again at the completed match's end, without setup *)
PaintCourt_WithoutSetup(cs, completed, courtSetupTime) ==
    IF \E i \in 1..Len(cs) : cs[i].courtId = completed.courtId
    THEN LET c == CHOOSE i \in 1..Len(cs) :
                     cs[i].courtId = completed.courtId
                     /\ \A j \in 1..(i - 1) : cs[j].courtId # completed.courtId
         IN IF completed.actualEndTime > cs[c].availableAt
            THEN [cs EXCEPT ![c] = [courtId |-> cs[c].courtId,
                                    availableAt |-> completed.actualEndTime,
                                    currentMatch |-> cs[c].currentMatch]]
            ELSE cs
    ELSE cs

PaintCourt(cs, completed, courtSetupTime) ==
    IF \E i \in 1..Len(cs) : cs[i].courtId = completed.courtId
    THEN LET c == CHOOSE i \in 1..Len(cs) :
                     cs[i].courtId = completed.courtId
                     /\ \A j \in 1..(i - 1) : cs[j].courtId # completed.courtId
             courtAvailableAt == completed.actualEndTime + courtSetupTime
         IN IF courtAvailableAt > cs[c].availableAt
            THEN [cs EXCEPT ![c] = [courtId |-> cs[c].courtId,
                                    availableAt |-> courtAvailableAt,
                                    currentMatch |-> cs[c].currentMatch]]
            ELSE cs
    ELSE cs

(* variant: the completed match leaves no rest on its teams *)
PaintTeam_WithoutRest(ts, teamId, restEnd, currentTime) ==
    EnsureTeamState(teamId, ts, currentTime)

(* variant: the rest end of the completed match read last is taken as it is *)
PaintTeam_LastWins(ts, teamId, restEnd, currentTime) ==
    [EnsureTeamState(teamId, ts, currentTime) EXCEPT
        ![teamId] = [availableAt |-> restEnd, currentMatch |-> Null]]

PaintTeam(ts, teamId, restEnd, currentTime) ==
    LET e == EnsureTeamState(teamId, ts, currentTime)
    IN IF restEnd > e[teamId].availableAt
       THEN [e EXCEPT ![teamId] = [availableAt |-> restEnd, currentMatch |-> e[teamId].currentMatch]]
       ELSE e

RECURSIVE PaintTimeline(_, _, _, _, _, _)
(* team and court states after the loop over config.completedMatches *)
PaintTimeline(completedList, ts, cs, restTime, courtSetupTime, currentTime) ==
    IF completedList = <<>> THEN [teamStates |-> ts, courtStates |-> cs]
    ELSE LET completed == Head(completedList)
             restEnd == completed.actualEndTime + restTime
         IN PaintTimeline(Tail(completedList),
                PaintTeam(PaintTeam(ts, completed.team1Id, restEnd, currentTime),
                          completed.team2Id, restEnd, currentTime),
                PaintCourt(cs, completed, courtSetupTime),
                restTime, courtSetupTime, currentTime)

RECURSIVE SeedQueue_OnlyWithoutDependencies(_, _, _, _)
(* variant: only the tasks without any dependency are enqueued *)
SeedQueue_OnlyWithoutDependencies(ms, ids, rem, completedIds) ==
    IF ids = <<>> THEN [remaining |-> rem, queue |-> <<>>]
    ELSE LET before == SeedQueue_OnlyWithoutDependencies(ms, SubSeq(ids, 1, Len(ids) - 1),
                                                         rem, completedIds)
             id == ids[Len(ids)]
         IN IF rem[id] = {}
            THEN [remaining |-> before.remaining, queue |-> Enqueue(ms, before.queue, id)]
            ELSE before

RECURSIVE SeedQueue_IgnoringDependencies(_, _, _, _)
(* variant: every pending task is seeded, whatever it depends on *)
SeedQueue_IgnoringDependencies(ms, ids, rem, completedIds) ==
    IF ids = <<>> THEN [remaining |-> rem, queue |-> <<>>]
    ELSE LET before == SeedQueue_IgnoringDependencies(ms, SubSeq(ids, 1, Len(ids) - 1),
                                                      rem, completedIds)
             id == ids[Len(ids)]
         IN [remaining |-> [before.remaining EXCEPT ![id] = {}],
             queue |-> Enqueue(ms, before.queue, id)]

RECURSIVE SeedQueue(_, _, _, _)
(* matchMap and queue after the seeding loop over the pending tasks *)
SeedQueue(ms, ids, rem, completedIds) ==
    IF ids = <<>> THEN [remaining |-> rem, queue |-> <<>>]
    ELSE LET before == SeedQueue(ms, SubSeq(ids, 1, Len(ids) - 1), rem, completedIds)
             id == ids[Len(ids)]
             allDepsSatisfied == \A depId \in rem[id] : depId \in completedIds
         IN IF allDepsSatisfied
            THEN [remaining |-> [before.remaining EXCEPT ![id] = {}],
                  queue |-> Enqueue(ms, before.queue, id)]
            ELSE before

(* config.startTime || currentTime *)
StartOrCurrent(cfg) == IF cfg.hasStartTime THEN cfg.startTime ELSE cfg.currentTime

BeginReschedule ==
    /\ pc = "start"
    /\ mode = "reschedule"
    /\ IF ConfigurationError(matches, courts) # ""
       THEN /\ result' = Error(ConfigurationError(matches, courts))
            /\ pc' = "done"
            /\ UNCHANGED <<simTime, teamStates, courtStates, remaining, queue, events, schedule>>
       ELSE LET pendingMatches == PendingOf(matches, config)
                painted == PaintTimeline(config.completedMatches, NoTeams,
                               InitialCourtStates(courts, StartOrCurrent(config)),
                               config.restTime, config.courtSetupTime, config.currentTime)
                seeded == SeedQueue(matches, IdsOf(pendingMatches),
                                    BuildMatchMap(pendingMatches), CompletedMatchIds(config))
            IN /\ schedule' = CompletedEntries(matches, config.completedMatches)
               /\ teamStates' = painted.teamStates
               /\ courtStates' = painted.courtStates
               /\ remaining' = seeded.remaining
               /\ queue' = seeded.queue
               /\ events' = <<>>
               /\ simTime' = config.currentTime
               /\ pc' = IF seeded.queue # <<>> THEN "loop" ELSE "verify"
               /\ result' = result
    /\ UNCHANGED <<poolVars, mode, matches, courts, config, clock>>

----------------------------------------------------------------------------
(* rescheduleMatches: pending count check, filter, summary and return *)

(* variant: nothing is filtered out *)
FutureSchedule_Unfiltered(sch, completedIds) == sch

ScheduledPendingCount(sch, completedIds) ==
    Len(SelectSeq(sch, LAMBDA s : s.matchId \notin completedIds))

FutureSchedule(sch, completedIds) == SelectSeq(sch, LAMBDA s : s.matchId \notin completedIds)

RescheduleResult(sch, cfg) ==
    LET futureSchedule == FutureSchedule(sch, CompletedMatchIds(cfg))
        endTime == LatestEnd(sch, cfg.currentTime)
    IN [kind |-> "ok",
        schedule |-> SortSchedule(futureSchedule),
        summary |-> [totalMatches |-> Len(futureSchedule),
                     totalDuration |-> endTime - StartOrCurrent(cfg),
                     courtsUsed |-> Cardinality({futureSchedule[i].courtId :
                                                    i \in 1..Len(futureSchedule)}),
                     endTime |-> endTime]]

FinishReschedule ==
    /\ pc = "verify"
    /\ mode = "reschedule"
    /\ LET scheduledPendingCount == ScheduledPendingCount(schedule, CompletedMatchIds(config))
       IN result' = IF scheduledPendingCount # Len(PendingOf(matches, config))
                    THEN Error("Failed to reschedule all pending matches")
                    ELSE RescheduleResult(schedule, config)
    /\ pc' = "done"
    /\ UNCHANGED <<poolVars, mode, matches, courts, config, clock, simTime, teamStates, courtStates,
                   remaining, queue, events, schedule>>

----------------------------------------------------------------------------
(* Inputs *)

RestTimes == {0, MaxRest}
SetupTimes == {0, MaxSetup}
StartTime == 0

(* participants of the i-th match: real teams "A".."D", placeholders "W1", "W2" *)
TeamChoices(i) ==
    CASE i = 1 -> {<<"A", "B">>}
      [] i = 2 -> {<<"C", "D">>, <<"A", "C">>}
      [] OTHER -> {<<"W1", "W2">>, <<"A", "D">>, <<"B", "B">>}

(* dependencies of the i-th match: none, other matches, itself *)
DepChoices(i) ==
    CASE i = 1 -> {{}, {2}}
      [] i = 2 -> {{}, {1}, {10}, {2}}
      [] OTHER -> {{}, {1}, {2}, {1, 2}}

RoundChoices(i) == IF i = 2 THEN {1} ELSE {1, MaxRound}

DurationChoices(i) == IF i = 3 THEN {1} ELSE {1, MaxDuration}

MatchChoices(i) ==
    {[id |-> MatchIdList[i], team1 |-> tp[1], team2 |-> tp[2], round |-> r,
      duration |-> d, dependencies |-> deps] :
        tp \in TeamChoices(i), r \in RoundChoices(i), d \in DurationChoices(i),
        deps \in DepChoices(i)}

InputMatches ==
    UNION {{ms \in [1..n -> UNION {MatchChoices(i) : i \in 1..n}] :
                \A i \in 1..n : ms[i] \in MatchChoices(i)} : n \in 0..Len(MatchIdList)}

InputCourts == {[i \in 1..n |-> i] : n \in 0..MaxCourts}

ScheduleConfigs ==
    {[restTime |-> r, startTime |-> StartTime, courtSetupTime |-> s,
      currentTime |-> StartTime, hasStartTime |-> TRUE, completedMatches |-> <<>>] :
        r \in RestTimes, s \in SetupTimes}

(* no function of poolDistribution.ts is called *)
NoPoolCall ==
    /\ poolArgs = [fn |-> "none"]
    /\ pools = <<>>
    /\ teamIndex = 0
    /\ round = 0

InitState ==
    /\ NoPoolCall
    /\ pc = "start"
    /\ simTime = 0
    /\ teamStates = NoTeams
    /\ courtStates = <<>>
    /\ remaining = <<>>
    /\ queue = <<>>
    /\ events = <<>>
    /\ schedule = <<>>
    /\ result = [kind |-> "none"]

Init ==
    /\ mode = "schedule"
    /\ matches \in InputMatches
    /\ courts \in InputCourts
    /\ config \in ScheduleConfigs
    /\ clock = StartTime
    /\ InitState

Next ==
    \/ BeginSchedule
    \/ ProcessEvent
    \/ PlaceMatch
    \/ AdvanceTime
    \/ FinishSchedule

Spec == Init /\ [][Next]_vars

----------------------------------------------------------------------------
(* Inputs of rescheduleMatches *)

CurrentTime == 2

RTeamChoices(i) ==
    CASE i = 1 -> {<<"A", "B">>}
      [] i = 2 -> {<<"C", "D">>, <<"A", "C">>}
      [] OTHER -> {<<"W1", "W2">>, <<"A", "D">>}

RDepChoices(i) ==
    CASE i = 1 -> {{}}
      [] i = 2 -> {{}, {1}}
      [] OTHER -> {{}, {1}, {1, 2}}

RRoundChoices(i) == IF i = 3 THEN {1, MaxRound} ELSE {1}

RDurationChoices(i) == IF i = 1 THEN {1, MaxDuration} ELSE {1}

RMatchChoices(i) ==
    {[id |-> MatchIdList[i], team1 |-> tp[1], team2 |-> tp[2], round |-> r,
      duration |-> d, dependencies |-> deps] :
        tp \in RTeamChoices(i), r \in RRoundChoices(i), d \in RDurationChoices(i),
        deps \in RDepChoices(i)}

RInputMatches ==
    UNION {{ms \in [1..n -> UNION {RMatchChoices(i) : i \in 1..n}] :
                \A i \in 1..n : ms[i] \in RMatchChoices(i)} : n \in 0..Len(MatchIdList)}

(* reports of the first two matches as played: actual teams, court and end time *)
CompletedChoices(i) ==
    IF i = 1
    THEN {[matchId |-> MatchIdList[1], courtId |-> 1, actualStartTime |-> StartTime,
           actualEndTime |-> e, team1Id |-> "A", team2Id |-> "B"] :
            e \in (CurrentTime - 1)..CurrentTime}
    ELSE {[matchId |-> MatchIdList[2], courtId |-> c, actualStartTime |-> StartTime,
           actualEndTime |-> e, team1Id |-> "C", team2Id |-> "D"] :
            c \in 1..MaxCourts, e \in (CurrentTime - 1)..CurrentTime}

CompletedLists ==
    {<<>>}
    \cup {<<a>> : a \in CompletedChoices(1)}
    \cup {<<b>> : b \in CompletedChoices(2)}
    \cup {<<a, b>> : a \in CompletedChoices(1), b \in CompletedChoices(2)}
    \cup {<<b, a>> : a \in CompletedChoices(1), b \in CompletedChoices(2)}

RescheduleConfigs ==
    {[restTime |-> r, startTime |-> StartTime, courtSetupTime |-> s,
      currentTime |-> CurrentTime, hasStartTime |-> h, completedMatches |-> cl] :
        r \in RestTimes, s \in SetupTimes, h \in BOOLEAN, cl \in CompletedLists}

InitR ==
    /\ mode = "reschedule"
    /\ matches \in RInputMatches
    /\ courts \in InputCourts
    /\ config \in RescheduleConfigs
    /\ clock = CurrentTime
    /\ InitState

NextR ==
    \/ BeginReschedule
    \/ ProcessEvent
    \/ PlaceMatch
    \/ AdvanceTime
    \/ FinishReschedule

SpecR == InitR /\ [][NextR]_vars

----------------------------------------------------------------------------
(* Both entry points in one specification *)

InitAll == Init \/ InitR

NextAll ==
    \/ BeginSchedule
    \/ BeginReschedule
    \/ ProcessEvent
    \/ PlaceMatch
    \/ AdvanceTime
    \/ FinishSchedule
    \/ FinishReschedule

SpecAll == InitAll /\ [][NextAll]_vars

----------------------------------------------------------------------------
(* Properties *)

Returned == pc = "done" /\ result.kind = "ok"

Threw == pc = "done" /\ result.kind = "error"

TeamsOf(id) == Range(GetTeamIds(MatchById(matches, id)))

DepsOf(id) == MatchById(matches, id).dependencies

InputIds == {matches[i].id : i \in 1..Len(matches)}

ShareTeam(a, b) == TeamsOf(a.matchId) \cap TeamsOf(b.matchId) # {}

Overlap(a, b) == a.startTime < b.endTime /\ b.startTime < a.endTime

(* C1: in every returned schedule (scheduleMatches and rescheduleMatches), two
   distinct scheduled matches that share a participant identity have
   non-overlapping [start, end) intervals *)
C1_NoDoubleBooking ==
    Returned =>
        \A i, j \in 1..Len(result.schedule) :
            (i # j /\ ShareTeam(result.schedule[i], result.schedule[j]))
                => ~Overlap(result.schedule[i], result.schedule[j])

C1_Witness ==
    /\ Returned
    /\ \E i, j \in 1..Len(result.schedule) :
          i # j /\ ShareTeam(result.schedule[i], result.schedule[j])

(* a and b are matches of team t, b the next one after a by start time *)
ConsecutiveFor(sch, t, a, b) ==
    /\ a # b
    /\ t \in TeamsOf(sch[a].matchId) \cap TeamsOf(sch[b].matchId)
    /\ sch[a].startTime <= sch[b].startTime
    /\ ~\E c \in 1..Len(sch) :
          /\ c # a /\ c # b
          /\ t \in TeamsOf(sch[c].matchId)
          /\ sch[a].startTime <= sch[c].startTime
          /\ sch[c].startTime <= sch[b].startTime

AllTeams == UNION {TeamsOf(id) : id \in InputIds}

(* C2: in every schedule returned by scheduleMatches, two matches of the same
   participant that are consecutive by start time are at least restTime apart:
   next.start - prev.end >= restTime *)
C2_RestTime ==
    (Returned /\ mode = "schedule") =>
        \A t \in AllTeams : \A a, b \in 1..Len(result.schedule) :
            ConsecutiveFor(result.schedule, t, a, b)
                => result.schedule[b].startTime - result.schedule[a].endTime >= config.restTime

C2_Witness ==
    /\ Returned /\ mode = "schedule" /\ config.restTime > 0
    /\ \E t \in AllTeams : \E a, b \in 1..Len(result.schedule) :
          ConsecutiveFor(result.schedule, t, a, b)

(* every entry of sch starts at or after the end of an entry of each dependency *)
DependenciesRespected(sch) ==
    \A i \in 1..Len(sch) : \A d \in DepsOf(sch[i].matchId) :
        \E j \in 1..Len(sch) : sch[j].matchId = d /\ sch[j].endTime <= sch[i].startTime

(* C3: in scheduleMatches a match is only ever placed at or after the end of
   each of its dependencies, and so in every returned schedule
   match.start >= dep.end for every dependency *)
C3_DependencyOrdering ==
    mode = "schedule" =>
        /\ DependenciesRespected(schedule)
        /\ (Returned => DependenciesRespected(result.schedule))

C3_Witness ==
    /\ Returned /\ mode = "schedule"
    /\ \E i \in 1..Len(result.schedule) : Cardinality(DepsOf(result.schedule[i].matchId)) = 2

(* C4: in every schedule returned by scheduleMatches, of two matches on the same
   court one starts at least courtSetupTime after the other ends *)
C4_CourtTurnaround ==
    (Returned /\ mode = "schedule") =>
        \A i, j \in 1..Len(result.schedule) :
            (i # j /\ result.schedule[i].courtId = result.schedule[j].courtId)
                => \/ result.schedule[j].startTime
                        >= result.schedule[i].endTime + config.courtSetupTime
                   \/ result.schedule[i].startTime
                        >= result.schedule[j].endTime + config.courtSetupTime

C4_Witness ==
    /\ Returned /\ mode = "schedule" /\ config.courtSetupTime > 0
    /\ \E i, j \in 1..Len(result.schedule) :
          i # j /\ result.schedule[i].courtId = result.schedule[j].courtId

(* sch holds exactly one entry for every id of ids and nothing else *)
ExactlyOnce(sch, ids) ==
    /\ {sch[i].matchId : i \in 1..Len(sch)} = ids
    /\ \A i, j \in 1..Len(sch) : sch[i].matchId = sch[j].matchId => i = j

(* C5: whenever scheduleMatches returns, the schedule holds exactly one entry
   for every input match and no other entry *)
C5_Completeness ==
    (Returned /\ mode = "schedule") =>
        /\ ExactlyOnce(result.schedule, InputIds)
        /\ Len(result.schedule) = Len(matches)

C5_Witness ==
    Returned /\ mode = "schedule" /\ Len(matches) = Len(MatchIdList)

(* C6: every match returned by rescheduleMatches starts at or after currentTime *)
C6_NoPast ==
    (Returned /\ mode = "reschedule") =>
        \A i \in 1..Len(result.schedule) :
            result.schedule[i].startTime >= config.currentTime

C6_Witness ==
    /\ Returned /\ mode = "reschedule"
    /\ config.hasStartTime /\ config.startTime < config.currentTime
    /\ \A i \in 1..Len(config.completedMatches) :
          config.completedMatches[i].actualEndTime + config.restTime < config.currentTime
    /\ \E i \in 1..Len(result.schedule) :
          result.schedule[i].startTime = config.currentTime

PendingIds == InputIds \ CompletedMatchIds(config)

(* C7: whenever rescheduleMatches returns, the schedule holds exactly the pending
   matches (input matches not reported completed), each once, and no completed one *)
C7_OnlyPending ==
    (Returned /\ mode = "reschedule") =>
        /\ ExactlyOnce(result.schedule, PendingIds)
        /\ \A i \in 1..Len(result.schedule) :
              result.schedule[i].matchId \notin CompletedMatchIds(config)

C7_Witness ==
    /\ Returned /\ mode = "reschedule"
    /\ CompletedMatchIds(config) \cap InputIds # {}
    /\ Len(result.schedule) >= 2

(* the dependency relation of the input: every dependency is the id of an input
   match and no match reaches itself *)
RECURSIVE ReachableFrom(_, _)
ReachableFrom(ids, n) ==
    IF n = 0 THEN ids
    ELSE ReachableFrom(ids \cup UNION {DepsOf(id) : id \in ids \cap InputIds}, n - 1)

WellFormedDependencies ==
    \A id \in InputIds :
        /\ DepsOf(id) \subseteq InputIds
        /\ id \notin ReachableFrom(DepsOf(id), Len(matches))

EntryOf(sch, id) == sch[CHOOSE i \in 1..Len(sch) : sch[i].matchId = id]

Scheduled(sch, id) == \E i \in 1..Len(sch) : sch[i].matchId = id

(* a pending match with a completed and a pending dependency *)
HasMixedDependencies(id) ==
    /\ id \in PendingIds
    /\ DepsOf(id) \cap CompletedMatchIds(config) # {}
    /\ DepsOf(id) \cap PendingIds # {}

(* C8: rescheduleMatches, given courts and a well-formed dependency graph in
   which a pending match depends on both a completed and a pending match,
   returns; the match is in the result and starts at or after the end of each
   of its pending dependencies *)
C8_MixedDependencies ==
    (/\ pc = "done" /\ mode = "reschedule"
     /\ Len(courts) > 0 /\ WellFormedDependencies) =>
        \A id \in InputIds : HasMixedDependencies(id) =>
            /\ result.kind = "ok"
            /\ Scheduled(result.schedule, id)
            /\ \A d \in DepsOf(id) \cap PendingIds :
                  /\ Scheduled(result.schedule, d)
                  /\ EntryOf(result.schedule, id).startTime
                        >= EntryOf(result.schedule, d).endTime

CompletedOf(id) ==
    {config.completedMatches[i] : i \in {k \in 1..Len(config.completedMatches) :
                                            config.completedMatches[k].matchId = id}}

(* C9: in a schedule returned by rescheduleMatches, a pending match all of whose
   dependencies are completed starts no earlier than the actualEndTime of each
   of them plus restTime *)
C9_RestAfterCompletedDependencies ==
    (Returned /\ mode = "reschedule") =>
        \A i \in 1..Len(result.schedule) :
            LET id == result.schedule[i].matchId
            IN (DepsOf(id) # {} /\ DepsOf(id) \subseteq CompletedMatchIds(config)) =>
                  \A d \in DepsOf(id) : \A c \in CompletedOf(d) :
                      result.schedule[i].startTime >= c.actualEndTime + config.restTime

(* C10: in a schedule returned by scheduleMatches, a match with dependencies
   starts at least restTime after the end of each of its dependencies *)
C10_RestAfterDependencies ==
    (Returned /\ mode = "schedule") =>
        \A i \in 1..Len(result.schedule) :
            \A d \in DepsOf(result.schedule[i].matchId) :
                result.schedule[i].startTime
                    >= EntryOf(result.schedule, d).endTime + config.restTime

----------------------------------------------------------------------------
(* the completed matches reported to rescheduleMatches *)
CompletedList == config.completedMatches

CompletedTeams(c) == {c.team1Id, c.team2Id}

(* C11: whenever rescheduleMatches returns, every returned match with a
   participant that is team1Id or team2Id of a completed match starts no earlier
   than that completed match's actualEndTime + restTime *)
C11_RestFromCompleted ==
    (Returned /\ mode = "reschedule") =>
        \A i \in 1..Len(result.schedule) : \A k \in 1..Len(CompletedList) :
            TeamsOf(result.schedule[i].matchId) \cap CompletedTeams(CompletedList[k]) # {}
                => result.schedule[i].startTime
                       >= CompletedList[k].actualEndTime + config.restTime

C11_Witness ==
    /\ Returned /\ mode = "reschedule"
    /\ \E i \in 1..Len(result.schedule) : \E k \in 1..Len(CompletedList) :
          /\ TeamsOf(result.schedule[i].matchId) \cap CompletedTeams(CompletedList[k]) # {}
          /\ CompletedList[k].actualEndTime + config.restTime > config.currentTime
          /\ result.schedule[i].startTime
                 = CompletedList[k].actualEndTime + config.restTime

(* C12: whenever rescheduleMatches returns, every returned match on a court on
   which a completed match was played starts no earlier than that completed
   match's actualEndTime + courtSetupTime *)
C12_SetupFromCompleted ==
    (Returned /\ mode = "reschedule") =>
        \A i \in 1..Len(result.schedule) : \A k \in 1..Len(CompletedList) :
            result.schedule[i].courtId = CompletedList[k].courtId
                => result.schedule[i].startTime
                       >= CompletedList[k].actualEndTime + config.courtSetupTime

C12_Witness ==
    /\ Returned /\ mode = "reschedule"
    /\ \E i \in 1..Len(result.schedule) : \E k \in 1..Len(CompletedList) :
          /\ result.schedule[i].courtId = CompletedList[k].courtId
          /\ CompletedList[k].actualEndTime + config.courtSetupTime > config.currentTime
          /\ result.schedule[i].startTime
                 = CompletedList[k].actualEndTime + config.courtSetupTime

----------------------------------------------------------------------------
FailedToSchedule == Error("Failed to schedule all matches")

(* the match declares a dependency that is not the id of an input match *)
HasDanglingDependency(id) == DepsOf(id) \ InputIds # {}

DanglingInput == \E id \in InputIds : HasDanglingDependency(id)

QueuedOrPlaced ==
    Range(queue) \cup {schedule[i].matchId : i \in 1..Len(schedule)}

(* C13: when some input match declares a dependency on an identity that is not
   the id of an input match (and there is a court to play on), scheduleMatches
   ends by throwing 'Failed to schedule all matches'; the match with the
   dangling dependency is never queued as a root task nor placed, and no
   schedule is returned *)
C13_DanglingDependency ==
    (mode = "schedule" /\ Len(courts) > 0 /\ DanglingInput) =>
        /\ pc = "done" => result = FailedToSchedule
        /\ \A id \in QueuedOrPlaced : ~HasDanglingDependency(id)

C13_Witness ==
    /\ mode = "schedule" /\ Len(courts) > 0 /\ DanglingInput
    /\ pc = "done" /\ result = FailedToSchedule
    /\ Len(schedule) > 0

----------------------------------------------------------------------------
(* some input match reaches itself along declared dependencies *)
CyclicInput ==
    \E id \in InputIds : id \in ReachableFrom(DepsOf(id), Len(matches))

RECURSIVE UnblockedAfter(_)
(* ids whose dependencies resolve, within n rounds, down to matches without
   dependencies: neither on a cycle, nor behind one, nor behind a dangling id *)
UnblockedAfter(n) ==
    IF n = 0 THEN {}
    ELSE {id \in InputIds : DepsOf(id) \subseteq UnblockedAfter(n - 1)}

UnblockedIds == UnblockedAfter(Len(matches))

PlacedIds == {schedule[i].matchId : i \in 1..Len(schedule)}

(* C14: when the dependencies of the input matches contain a cycle (a self
   dependency included) and there is a court to play on, scheduleMatches never
   gets stuck before its end (a state-changing step is always possible), and
   it ends by throwing 'Failed to schedule all matches' with exactly the
   matches that are not blocked placed before the throw *)
C14_CyclicDependencies ==
    (mode = "schedule" /\ Len(courts) > 0 /\ CyclicInput) =>
        /\ pc # "done" => ENABLED <<Next>>_vars
        /\ pc = "done" => (result = FailedToSchedule /\ PlacedIds = UnblockedIds)

C14_Witness ==
    /\ mode = "schedule" /\ Len(courts) > 0 /\ CyclicInput
    /\ pc = "done" /\ result = FailedToSchedule
    /\ PlacedIds = UnblockedIds /\ PlacedIds # {}

----------------------------------------------------------------------------
(* no scheduling state has been built and no match has been placed *)
NothingBuilt ==
    /\ schedule = <<>> /\ teamStates = NoTeams /\ courtStates = <<>>
    /\ remaining = <<>> /\ queue = <<>> /\ events = <<>>

(* C15: in scheduleMatches and in rescheduleMatches the first step of a call
   with no matches throws 'No matches to schedule', and otherwise the first step
   of a call with no courts throws 'No courts available'; in both cases nothing
   of the scheduling state has been built and no match has been placed *)
C15_ConfigurationErrors ==
    pc # "start" =>
        /\ Len(matches) = 0 =>
              (pc = "done" /\ result = Error("No matches to schedule") /\ NothingBuilt)
        /\ (Len(matches) > 0 /\ Len(courts) = 0) =>
              (pc = "done" /\ result = Error("No courts available") /\ NothingBuilt)

C15_Witness ==
    /\ pc = "done" /\ Len(matches) = 0 /\ Len(courts) = 0
    /\ result = Error("No matches to schedule") /\ NothingBuilt

----------------------------------------------------------------------------
(* Termination of the two loops, as a progress measure over the run *)

Phase == CASE pc = "start" -> 3 [] pc = "loop" -> 2 [] pc = "verify" -> 1 [] OTHER -> 0

(* entries the schedule starts with: the completed matches in rescheduleMatches *)
SeededEntries == IF mode = "reschedule" THEN Len(CompletedList) ELSE 0

(* placements still to come plus ends still to be processed *)
WorkLeft ==
    IF pc = "start" THEN 0
    ELSE 2 * (Len(PendingMatches) + SeededEntries - Len(schedule)) + Len(events)

RECURSIVE SumOver(_, _)
SumOver(s, perMatch) ==
    IF s = <<>> THEN 0 ELSE Head(s).duration + perMatch + SumOver(Tail(s), perMatch)

RECURSIVE LatestCompleted(_, _)
LatestCompleted(s, max) ==
    IF s = <<>> THEN max
    ELSE LatestCompleted(Tail(s), Max2(max, Head(s).actualEndTime))

(* no instant of the simulation lies beyond this one *)
Horizon ==
    Max2(Max2(config.startTime, config.currentTime),
         LatestCompleted(CompletedList, 0) + config.restTime + config.courtSetupTime)
        + SumOver(matches, config.restTime + config.courtSetupTime)

Variant == <<Phase, WorkLeft, Horizon - simTime>>

LexLess(a, b) ==
    \/ a[1] < b[1]
    \/ a[1] = b[1] /\ a[2] < b[2]
    \/ a[1] = b[1] /\ a[2] = b[2] /\ a[3] < b[3]

(* a call that has not begun begins: the two entry points have no other guard *)
CanBegin == mode \in {"schedule", "reschedule"}

(* C16: the loop of scheduleMatches and of rescheduleMatches ends for every
   input: inside the loop and at the final check a state-changing step is
   always possible, every step strictly lowers a measure of three natural
   numbers compared in order (phase of the call, placements and ends left, time
   left to the horizon), and the end is a returned result or a thrown error *)
C16_Termination ==
    /\ [](pc = "start" => CanBegin)
    /\ [](pc \in {"loop", "verify"} => ENABLED <<NextAll>>_vars)
    /\ [](\A k \in 1..3 : Variant[k] >= 0)
    /\ [](pc = "done" => result.kind \in {"ok", "error"})
    /\ [][LexLess(Variant', Variant)]_vars

C16_Witness ==
    /\ pc = "done" /\ Len(courts) >= 1
    /\ CyclicInput
    /\ result.kind = "error"
    /\ simTime > InitialTime /\ PlacedIds # {}

----------------------------------------------------------------------------
(* validateSchedule *)

ValidationError(kind, teamId, matchId, otherId) ==
    [kind |-> kind, teamId |-> teamId, matchId |-> matchId, otherId |-> otherId]

RECURSIVE Visits(_, _)
(* the { start, end, matchId } records of the first loop, in the order they are
   pushed, each with the team whose occupancy list receives it; a scheduled
   entry whose match is unknown is skipped *)
Visits(sch, ms) ==
    IF sch = <<>> THEN <<>>
    ELSE LET scheduled == Head(sch)
         IN IF ~HasMatch(ms, scheduled.matchId) THEN Visits(Tail(sch), ms)
            ELSE LET teamIds == GetTeamIds(MatchById(ms, scheduled.matchId))
                 IN [i \in 1..Len(teamIds) |->
                        [teamId |-> teamIds[i], start |-> scheduled.startTime,
                         end |-> scheduled.endTime, matchId |-> scheduled.matchId]]
                    \o Visits(Tail(sch), ms)

(* the three-way test of the first loop *)
Simultaneous(scheduled, other) ==
    \/ scheduled.start >= other.start /\ scheduled.start < other.end
    \/ scheduled.end > other.start /\ scheduled.end <= other.end
    \/ scheduled.start <= other.start /\ scheduled.end >= other.end

(* errors pushed while the k-th record is compared with the team's occupancy *)
SimultaneousErrorsAt(visits, k) ==
    LET clashes == SelectSeq(SubSeq(visits, 1, k - 1),
                       LAMBDA other : other.teamId = visits[k].teamId
                                      /\ Simultaneous(visits[k], other))
    IN [j \in 1..Len(clashes) |->
            ValidationError("simultaneous", visits[k].teamId,
                            visits[k].matchId, clashes[j].matchId)]

RECURSIVE SimultaneousErrors(_, _)
(* Check 1: no team plays multiple matches simultaneously *)
SimultaneousErrors(visits, k) ==
    IF k > Len(visits) THEN <<>>
    ELSE SimultaneousErrorsAt(visits, k) \o SimultaneousErrors(visits, k + 1)

RECURSIVE TeamOrder(_, _)
(* keys of teamOccupancy in insertion order *)
TeamOrder(visits, seen) ==
    IF visits = <<>> THEN <<>>
    ELSE IF Head(visits).teamId \in seen THEN TeamOrder(Tail(visits), seen)
    ELSE <<Head(visits).teamId>>
             \o TeamOrder(Tail(visits), seen \cup {Head(visits).teamId})

Occupancy(visits, teamId) == SelectSeq(visits, LAMBDA v : v.teamId = teamId)

RECURSIVE InsertOccupancy(_, _)
InsertOccupancy(sorted, o) ==
    IF sorted = <<>> THEN <<o>>
    ELSE IF sorted[Len(sorted)].start - o.start <= 0 THEN Append(sorted, o)
    ELSE Append(InsertOccupancy(SubSeq(sorted, 1, Len(sorted) - 1), o), sorted[Len(sorted)])

RECURSIVE SortOccupancy(_)
(* occupancy.sort((a, b) => a.start - b.start), stable *)
SortOccupancy(occupancy) ==
    IF occupancy = <<>> THEN <<>>
    ELSE InsertOccupancy(SortOccupancy(SubSeq(occupancy, 1, Len(occupancy) - 1)),
                         occupancy[Len(occupancy)])

(* errors of one team: consecutive records of its sorted occupancy *)
RestErrorsOf(sorted, restTime) ==
    LET short == SelectSeq([i \in 1..(Len(sorted) - 1) |-> i + 1],
                     LAMBDA i : sorted[i].start - sorted[i - 1].end < restTime)
    IN [j \in 1..Len(short) |->
            ValidationError("rest", sorted[short[j]].teamId,
                            sorted[short[j] - 1].matchId, sorted[short[j]].matchId)]

RECURSIVE RestErrors(_, _, _)
(* Check 2: rest time between matches, team by team *)
RestErrors(visits, teams, restTime) ==
    IF teams = <<>> THEN <<>>
    ELSE RestErrorsOf(SortOccupancy(Occupancy(visits, Head(teams))), restTime)
             \o RestErrors(visits, Tail(teams), restTime)

(* scheduleMap: the last entry of the schedule with the id *)
InScheduleMap(sch, id) == \E i \in 1..Len(sch) : sch[i].matchId = id

ScheduleMapGet(sch, id) ==
    sch[CHOOSE i \in 1..Len(sch) :
            sch[i].matchId = id /\ \A j \in (i + 1)..Len(sch) : sch[j].matchId # id]

(* match.dependencies as a list *)
DependencyList(match) == SelectSeq(MatchIdList, LAMBDA d : d \in match.dependencies)

RECURSIVE DependencyErrorsOf(_, _, _)
(* errors of one scheduled match, dependency by dependency *)
DependencyErrorsOf(sch, match, deps) ==
    IF deps = <<>> THEN <<>>
    ELSE LET depId == Head(deps)
             rest == DependencyErrorsOf(sch, match, Tail(deps))
         IN IF ~InScheduleMap(sch, depId)
            THEN <<ValidationError("missing", "", match.id, depId)>> \o rest
            ELSE IF ScheduleMapGet(sch, match.id).startTime
                        < ScheduleMapGet(sch, depId).endTime
            THEN <<ValidationError("order", "", match.id, depId)>> \o rest
            ELSE rest

RECURSIVE DependencyErrors(_, _)
(* Check 3: dependencies respected; a match without an entry is passed over *)
DependencyErrors(sch, ms) ==
    IF ms = <<>> THEN <<>>
    ELSE (IF ~InScheduleMap(sch, Head(ms).id) THEN <<>>
          ELSE DependencyErrorsOf(sch, Head(ms), DependencyList(Head(ms))))
         \o DependencyErrors(sch, Tail(ms))

(* variant: the report stops at the first error *)
ValidationErrors_FirstOnly(sch, ms, cfg) ==
    LET visits == Visits(sch, ms)
        all == SimultaneousErrors(visits, 1)
               \o RestErrors(visits, TeamOrder(visits, {}), cfg.restTime)
               \o DependencyErrors(sch, ms)
    IN IF all = <<>> THEN <<>> ELSE <<all[1]>>

ValidationErrors(sch, ms, cfg) ==
    LET visits == Visits(sch, ms)
    IN SimultaneousErrors(visits, 1)
       \o RestErrors(visits, TeamOrder(visits, {}), cfg.restTime)
       \o DependencyErrors(sch, ms)

ValidateSchedule(sch, ms, cfg) ==
    LET errors == ValidationErrors(sch, ms, cfg)
    IN [valid |-> Len(errors) = 0, errors |-> errors]

DistinctParticipants == \A i \in 1..Len(matches) : matches[i].team1 # matches[i].team2

(* C17: whenever scheduleMatches returns on an input whose matches have two
   distinct participants each, validateSchedule applied to the returned
   schedule, the input matches and the configuration reports valid = true with
   an empty list of errors *)
C17_ReturnedScheduleIsValid ==
    (Returned /\ mode = "schedule" /\ DistinctParticipants) =>
        ValidateSchedule(result.schedule, matches, config) = [valid |-> TRUE, errors |-> <<>>]

C17_Witness ==
    /\ Returned /\ mode = "schedule" /\ DistinctParticipants
    /\ Len(result.schedule) = 3
    /\ config.restTime > 0
    /\ \E i \in 1..Len(matches) : matches[i].dependencies # {}
    /\ \E i, j \in 1..Len(result.schedule) : i # j /\ ShareTeam(result.schedule[i], result.schedule[j])
    /\ ValidateSchedule(result.schedule, matches, config).valid

----------------------------------------------------------------------------
(* validateSchedule applied to given schedules *)

MaxStart == 2

(* dependencies of the i-th match given to the validator: none, earlier
   matches, an id that is only an input match when there are three matches *)
VDepChoices(i) ==
    CASE i = 1 -> {{}}
      [] i = 2 -> {{}, {1}, {10}}
      [] OTHER -> {{}, {1}, {1, 2}}

VMatchChoices(i) ==
    {[id |-> MatchIdList[i], team1 |-> tp[1], team2 |-> tp[2], round |-> 1,
      duration |-> 1, dependencies |-> deps] :
        tp \in TeamChoices(i), deps \in VDepChoices(i)}

VInputMatches ==
    UNION {{ms \in [1..n -> UNION {VMatchChoices(i) : i \in 1..n}] :
                \A i \in 1..n : ms[i] \in VMatchChoices(i)} : n \in 1..Len(MatchIdList)}

(* entries for the i-th match id: any start, an end after the start *)
EntryChoices(i) ==
    {[matchId |-> MatchIdList[i], courtId |-> 1, startTime |-> s, endTime |-> s + d,
      round |-> 1] : s \in 0..MaxStart, d \in {1, MaxDuration}}

(* which ids have an entry, in ascending or descending position *)
EntryOrders ==
    {o \in UNION {[1..k -> 1..Len(MatchIdList)] : k \in 0..Len(MatchIdList)} :
        \/ \A a, b \in 1..Len(o) : a < b => o[a] < o[b]
        \/ \A a, b \in 1..Len(o) : a < b => o[a] > o[b]}

GivenSchedules ==
    UNION {{sch \in [1..Len(o) -> UNION {EntryChoices(i) : i \in 1..Len(MatchIdList)}] :
                \A k \in 1..Len(o) : sch[k] \in EntryChoices(o[k])} : o \in EntryOrders}

VRestTimes == 0..MaxRest

ValidatorConfigs ==
    {[restTime |-> r, startTime |-> StartTime, courtSetupTime |-> 0,
      currentTime |-> StartTime, hasStartTime |-> TRUE, completedMatches |-> <<>>] :
        r \in VRestTimes}

InitV ==
    /\ mode = "validate"
    /\ matches \in VInputMatches
    /\ courts = <<>>
    /\ config \in ValidatorConfigs
    /\ clock = StartTime
    /\ schedule \in GivenSchedules
    /\ NoPoolCall
    /\ pc = "start"
    /\ simTime = 0
    /\ teamStates = NoTeams
    /\ courtStates = <<>>
    /\ remaining = <<>>
    /\ queue = <<>>
    /\ events = <<>>
    /\ result = [kind |-> "none"]

(* variant: the schedule argument is sorted in place before it is examined *)
Validate_SortingArgument ==
    /\ pc = "start"
    /\ mode = "validate"
    /\ schedule' = SortSchedule(schedule)
    /\ result' = [kind |-> "report",
                  report |-> ValidateSchedule(SortSchedule(schedule), matches, config)]
    /\ pc' = "done"
    /\ UNCHANGED <<poolVars, mode, matches, courts, config, clock, simTime, teamStates, courtStates,
                   remaining, queue, events>>

Validate ==
    /\ pc = "start"
    /\ mode = "validate"
    /\ result' = [kind |-> "report", report |-> ValidateSchedule(schedule, matches, config)]
    /\ pc' = "done"
    /\ UNCHANGED <<poolVars, mode, matches, courts, config, clock, simTime, teamStates, courtStates,
                   remaining, queue, events, schedule>>

NextV == Validate

SpecV == InitV /\ [][NextV]_vars

Validated == pc = "done" /\ mode = "validate"

Report == result.report

----------------------------------------------------------------------------
(* the constraints on a given schedule, stated over its entries *)

Known(k) == HasMatch(matches, schedule[k].matchId)

ParticipantsOf(k) ==
    IF Known(k) THEN TeamsOf(schedule[k].matchId) ELSE {}

EntriesOf(teamId) == {k \in 1..Len(schedule) : teamId \in ParticipantsOf(k)}

(* (a) no two scheduled matches sharing a participant overlap as [start, end) *)
NoSharedOverlap ==
    \A i, j \in 1..Len(schedule) :
        (i < j /\ ParticipantsOf(i) \cap ParticipantsOf(j) # {})
            => ~Overlap(schedule[i], schedule[j])

(* entry i comes before entry j by start time, ties in the order of the schedule *)
StartsBefore(i, j) ==
    \/ schedule[i].startTime < schedule[j].startTime
    \/ schedule[i].startTime = schedule[j].startTime /\ i < j

ConsecutiveOf(teamId, i, j) ==
    /\ i \in EntriesOf(teamId) /\ j \in EntriesOf(teamId)
    /\ StartsBefore(i, j)
    /\ \A k \in EntriesOf(teamId) : ~(StartsBefore(i, k) /\ StartsBefore(k, j))

ShortRest(i, j) == schedule[j].startTime - schedule[i].endTime < config.restTime

(* (b) for each participant, consecutive matches by start time leave the rest *)
EnoughRest ==
    \A teamId \in UNION {ParticipantsOf(k) : k \in 1..Len(schedule)} :
        \A i, j \in 1..Len(schedule) : ConsecutiveOf(teamId, i, j) => ~ShortRest(i, j)

DeclaredDependencies(k) ==
    IF Known(k) THEN DepsOf(schedule[k].matchId) ELSE {}

(* (c) each declared dependency of a scheduled match has an entry that ends
   no later than the match starts *)
DependenciesMet ==
    \A k \in 1..Len(schedule) : \A d \in DeclaredDependencies(k) :
        \E e \in 1..Len(schedule) :
            schedule[e].matchId = d /\ schedule[e].endTime <= schedule[k].startTime

(* C18: validateSchedule reports valid = true exactly when the given schedule
   satisfies (a), (b) and (c), and valid = false otherwise *)
C18_ValidExactlyWhenConstraintsHold ==
    Validated => (Report.valid <=> (NoSharedOverlap /\ EnoughRest /\ DependenciesMet))

(* the same, for matches with two distinct participants each *)
C18_DistinctParticipantsOnly ==
    (Validated /\ DistinctParticipants) =>
        (Report.valid <=> (NoSharedOverlap /\ EnoughRest /\ DependenciesMet))

----------------------------------------------------------------------------
Reported(kind, teamId, ids) ==
    \E n \in 1..Len(Report.errors) :
        /\ Report.errors[n].kind = kind
        /\ Report.errors[n].teamId = teamId
        /\ {Report.errors[n].matchId, Report.errors[n].otherId} = ids

ReportedDependency(kind, matchId, depId) ==
    \E n \in 1..Len(Report.errors) :
        /\ Report.errors[n].kind = kind
        /\ Report.errors[n].matchId = matchId
        /\ Report.errors[n].otherId = depId

HasEntry(id) == \E e \in 1..Len(schedule) : schedule[e].matchId = id

(* every overlapping pair of entries of a participant has its error *)
EveryOverlapReported ==
    \A i, j \in 1..Len(schedule) :
        \A teamId \in ParticipantsOf(i) \cap ParticipantsOf(j) :
            (i < j /\ Overlap(schedule[i], schedule[j]))
                => Reported("simultaneous", teamId,
                            {schedule[i].matchId, schedule[j].matchId})

(* every insufficient gap between consecutive entries of a participant has its error *)
EveryShortRestReported ==
    \A teamId \in UNION {ParticipantsOf(k) : k \in 1..Len(schedule)} :
        \A i, j \in 1..Len(schedule) :
            (ConsecutiveOf(teamId, i, j) /\ ShortRest(i, j))
                => Reported("rest", teamId, {schedule[i].matchId, schedule[j].matchId})

(* every missing and every violated dependency of a scheduled match has its error *)
EveryDependencyReported ==
    \A k \in 1..Len(schedule) : \A d \in DeclaredDependencies(k) :
        /\ ~HasEntry(d) => ReportedDependency("missing", schedule[k].matchId, d)
        /\ (HasEntry(d) /\ schedule[k].startTime < EntryOf(schedule, d).endTime)
              => ReportedDependency("order", schedule[k].matchId, d)

(* C19: every call of validateSchedule ends with a report and not with a throw;
   the errors of the report hold an entry for every overlapping pair, every
   insufficient rest gap and every missing or violated dependency, and valid
   is true exactly when errors is empty *)
C19_ExhaustiveReport ==
    Validated =>
        /\ result.kind = "report"
        /\ EveryOverlapReported /\ EveryShortRestReported /\ EveryDependencyReported
        /\ Report.valid <=> (Report.errors = <<>>)

C19_Witness ==
    /\ Validated
    /\ \E i, j \in 1..Len(schedule) :
          i < j /\ ParticipantsOf(i) \cap ParticipantsOf(j) # {}
                /\ Overlap(schedule[i], schedule[j])
    /\ \E k \in 1..Len(schedule) : \E d \in DeclaredDependencies(k) : ~HasEntry(d)
    /\ \E k \in 1..Len(schedule) : \E d \in DeclaredDependencies(k) :
          HasEntry(d) /\ schedule[k].startTime < EntryOf(schedule, d).endTime
    /\ Len(Report.errors) >= 4
    /\ ~Report.valid

(* some match of the given matches has no entry in the given schedule *)
Unscheduled(id) == id \in InputIds /\ ~HasEntry(id)

NamesMatch(error, id) == error.matchId = id \/ error.otherId = id

(* C20: when some match of the given matches has no entry in the given
   schedule, validateSchedule reports valid = false with an error naming the
   unscheduled match *)
C20_UnscheduledMatchReported ==
    Validated =>
        \A id \in InputIds :
            Unscheduled(id) =>
                /\ ~Report.valid
                /\ \E n \in 1..Len(Report.errors) : NamesMatch(Report.errors[n], id)

----------------------------------------------------------------------------
(* A whole call as a function of its arguments and of the clock reading:
   the statements of scheduleMatches / rescheduleMatches executed in order *)

InitialTimeFor(m, cfg, now) ==
    IF m = "schedule" THEN StartTimeOf(cfg, now) ELSE cfg.currentTime

PendingFor(m, ms, cfg) == IF m = "schedule" THEN ms ELSE PendingOf(ms, cfg)

ActualStartTimeFor(m, cfg, match, time, ts, cs) ==
    IF m = "schedule" THEN ScheduleStartTime(match, time, ts, cs)
    ELSE RescheduleStartTime(match, time, ts, cs, cfg.currentTime)

CanPlaceFor(m, cfg, match, time, ts, cs) ==
    /\ AreTeamsAvailable(match, time, ts)
    /\ FindAvailableCourt(time, cs).court # Null
    /\ ~(ActualStartTimeFor(m, cfg, match, time, ts, cs) > time)

NextTimeFor(m, cfg, time, ts, cs) ==
    LET n == NextAvailability(time, ts, cs)
    IN IF m = "reschedule" /\ cfg.currentTime > time /\ cfg.currentTime < n
       THEN cfg.currentTime ELSE n

(* the local state of a call that threw at its validation *)
RunRejected(message) ==
    [pc |-> "done", simTime |-> 0, teamStates |-> NoTeams, courtStates |-> <<>>,
     remaining |-> <<>>, queue |-> <<>>, events |-> <<>>, schedule |-> <<>>,
     result |-> Error(message)]

(* the local state when the loop is first entered *)
RunBegin(m, ms, cts, cfg, now) ==
    IF ConfigurationError(ms, cts) # "" THEN RunRejected(ConfigurationError(ms, cts))
    ELSE IF m = "schedule"
    THEN LET matchMap == BuildMatchMap(ms)
             q == InitialQueue(ms, matchMap, IdsOf(ms))
         IN [pc |-> IF q # <<>> THEN "loop" ELSE "verify",
             simTime |-> StartTimeOf(cfg, now), teamStates |-> NoTeams,
             courtStates |-> InitialCourtStates(cts, StartTimeOf(cfg, now)),
             remaining |-> matchMap, queue |-> q, events |-> <<>>, schedule |-> <<>>,
             result |-> [kind |-> "none"]]
    ELSE LET pendingMatches == PendingOf(ms, cfg)
             painted == PaintTimeline(cfg.completedMatches, NoTeams,
                            InitialCourtStates(cts, StartOrCurrent(cfg)),
                            cfg.restTime, cfg.courtSetupTime, cfg.currentTime)
             seeded == SeedQueue(ms, IdsOf(pendingMatches),
                                 BuildMatchMap(pendingMatches), CompletedMatchIds(cfg))
         IN [pc |-> IF seeded.queue # <<>> THEN "loop" ELSE "verify",
             simTime |-> cfg.currentTime, teamStates |-> painted.teamStates,
             courtStates |-> painted.courtStates, remaining |-> seeded.remaining,
             queue |-> seeded.queue, events |-> <<>>,
             schedule |-> CompletedEntries(ms, cfg.completedMatches),
             result |-> [kind |-> "none"]]

(* first part of an iteration: the earliest due end event is processed *)
RunEvent(m, ms, cfg, now, st) ==
    LET event == st.events[1]
        u == UnlockDependents(ms, Dependents(PendingFor(m, ms, cfg), event.matchId),
                              event.matchId, st.remaining, st.queue)
    IN [st EXCEPT !.events = Tail(st.events),
                  !.courtStates = FreeCourt(st.courtStates, event, cfg.courtSetupTime),
                  !.teamStates = FreeTeams(st.teamStates, event, cfg.restTime,
                                           InitialTimeFor(m, cfg, now)),
                  !.remaining = u.remaining,
                  !.queue = u.queue]

PlaceableIn(m, ms, cfg, st, i) ==
    CanPlaceFor(m, cfg, MatchById(ms, st.queue[i]), st.simTime, st.teamStates, st.courtStates)

(* placement pass: the first task of the queue that passes every test is placed *)
RunPlace(m, ms, cfg, now, st) ==
    LET i == CHOOSE k \in 1..Len(st.queue) :
                 /\ PlaceableIn(m, ms, cfg, st, k)
                 /\ \A j \in 1..(k - 1) : ~PlaceableIn(m, ms, cfg, st, j)
        match == MatchById(ms, st.queue[i])
        courtResult == FindAvailableCourt(st.simTime, st.courtStates)
        actualStartTime == ActualStartTimeFor(m, cfg, match, st.simTime,
                                              st.teamStates, st.courtStates)
        endTime == actualStartTime + match.duration
        teamIds == GetTeamIds(match)
        courtId == st.courtStates[courtResult.court].courtId
    IN [st EXCEPT
          !.schedule = Append(st.schedule,
                          [matchId |-> match.id, courtId |-> courtId,
                           startTime |-> actualStartTime, endTime |-> endTime,
                           round |-> match.round]),
          !.courtStates = [st.courtStates EXCEPT ![courtResult.court] =
                              [courtId |-> courtId, availableAt |-> endTime,
                               currentMatch |-> match.id]],
          !.teamStates = OccupyTeams(st.teamStates, teamIds, match.id,
                                     InitialTimeFor(m, cfg, now)),
          !.events = SortEvents(Append(st.events,
                         [time |-> endTime, matchId |-> match.id, courtId |-> courtId,
                          team1Id |-> teamIds[1], team2Id |-> teamIds[2]])),
          !.queue = Remove(st.queue, match.id)]

(* nothing was placed: next event, next availability, deadlock error or end of loop *)
RunAdvance(m, ms, cfg, now, st) ==
    IF st.events # <<>> THEN [st EXCEPT !.simTime = st.events[1].time]
    ELSE IF st.queue # <<>>
    THEN LET nextTime == NextTimeFor(m, cfg, st.simTime, st.teamStates, st.courtStates)
         IN IF nextTime < MaxDate THEN [st EXCEPT !.simTime = nextTime]
            ELSE [st EXCEPT !.pc = "done",
                            !.result = Error(IF m = "schedule"
                                             THEN "Scheduling deadlock detected"
                                             ELSE "Scheduling deadlock detected in reschedule mode")]
    ELSE [st EXCEPT !.pc = "verify"]

(* the statements after the loop *)
RunFinish(m, ms, cfg, now, st) ==
    [st EXCEPT
       !.pc = "done",
       !.result =
          IF m = "schedule"
          THEN IF ~AllScheduled(st.schedule, ms)
               THEN Error("Failed to schedule all matches")
               ELSE ScheduleResult(st.schedule, StartTimeOf(cfg, now))
          ELSE IF ScheduledPendingCount(st.schedule, CompletedMatchIds(cfg))
                      # Len(PendingOf(ms, cfg))
               THEN Error("Failed to reschedule all pending matches")
               ELSE RescheduleResult(st.schedule, cfg)]

RunStep(m, ms, cfg, now, st) ==
    IF st.pc = "verify" THEN RunFinish(m, ms, cfg, now, st)
    ELSE IF st.events # <<>> /\ st.events[1].time <= st.simTime
    THEN RunEvent(m, ms, cfg, now, st)
    ELSE IF \E i \in 1..Len(st.queue) : PlaceableIn(m, ms, cfg, st, i)
    THEN RunPlace(m, ms, cfg, now, st)
    ELSE RunAdvance(m, ms, cfg, now, st)

RECURSIVE RunToEnd(_, _, _, _, _)
RunToEnd(m, ms, cfg, now, st) ==
    IF st.pc = "done" THEN st ELSE RunToEnd(m, ms, cfg, now, RunStep(m, ms, cfg, now, st))

(* what the call returns or throws *)
Outcome(m, ms, cts, cfg, now) == RunToEnd(m, ms, cfg, now, RunBegin(m, ms, cts, cfg, now)).result

----------------------------------------------------------------------------
(* Repeated calls on the same arguments: the clock is the only thing that
   differs between two runs *)

MaxClock == 1

Clocks == {StartTime, StartTime + MaxClock}

SingleRound(ms) == \A i \in 1..Len(ms) : ms[i].round = 1

(* scheduleMatches configurations, with and without config.startTime *)
ClockConfigs ==
    ScheduleConfigs
    \cup {[c EXCEPT !.hasStartTime = FALSE] : c \in {x \in ScheduleConfigs : x.courtSetupTime = 0}}

InitD ==
    /\ \/ /\ mode = "schedule"
          /\ matches \in {ms \in InputMatches : SingleRound(ms)}
          /\ config \in ClockConfigs
       \/ /\ mode = "reschedule"
          /\ matches \in {ms \in RInputMatches : SingleRound(ms)}
          /\ config \in RescheduleConfigs
    /\ courts \in InputCourts
    /\ clock \in Clocks
    /\ InitState

SpecD == InitD /\ [][NextAll]_vars

(* the result of another run on the same arguments, started when the clock
   read StartTime *)
OtherRun == Outcome(mode, matches, courts, config, StartTime)

(* C21: a run of scheduleMatches or rescheduleMatches ends with the same
   output (schedule, order, summary, or error) as any other run on the same
   arguments *)
C21_Determinism ==
    pc = "done" => result = OtherRun

(* C21, amended: the same, for rescheduleMatches and for the calls of
   scheduleMatches that are given config.startTime *)
C21_DeterminismGivenStartTime ==
    (pc = "done" /\ (mode = "schedule" => config.hasStartTime)) => result = OtherRun

C21_Witness ==
    /\ Returned /\ mode = "schedule" /\ config.hasStartTime
    /\ clock # StartTime
    /\ Len(result.schedule) = 3
    /\ result = OtherRun

----------------------------------------------------------------------------
(* Calls one after the other: the locals of a finished call are what a later
   call finds before its own initialisation *)

UnitMatches(S) == {ms \in S : SingleRound(ms) /\ \A i \in 1..Len(ms) : ms[i].duration = 1}

(* arguments of the first call *)
FirstCallArguments ==
    {[mode |-> "schedule", matches |-> ms, courts |-> cts, config |-> cfg, schedule |-> <<>>] :
        ms \in UnitMatches(InputMatches), cts \in InputCourts, cfg \in ScheduleConfigs}
    \cup
    {[mode |-> "reschedule", matches |-> ms, courts |-> cts, config |-> cfg, schedule |-> <<>>] :
        ms \in UnitMatches(RInputMatches), cts \in InputCourts,
        cfg \in {c \in RescheduleConfigs : c.hasStartTime}}
    \cup
    {[mode |-> "validate", matches |-> ms, courts |-> <<>>, config |-> cfg, schedule |-> sch] :
        ms \in VInputMatches,
        cfg \in {c \in ValidatorConfigs : c.restTime = MaxRest},
        sch \in {s \in GivenSchedules :
                    \A a, b \in 1..Len(s) : a < b => s[a].startTime <= s[b].startTime}}

TwoMatches ==
    <<[id |-> MatchIdList[1], team1 |-> "A", team2 |-> "B", round |-> 1,
       duration |-> MaxDuration, dependencies |-> {}],
      [id |-> MatchIdList[2], team1 |-> "A", team2 |-> "C", round |-> 1,
       duration |-> 1, dependencies |-> {MatchIdList[1]}]>>

(* arguments of a later call *)
LaterCallArguments ==
    {[mode |-> "schedule", matches |-> TwoMatches, courts |-> <<1>>, schedule |-> <<>>,
      config |-> CHOOSE c \in ScheduleConfigs :
                     c.restTime = MaxRest /\ c.courtSetupTime = MaxSetup],
     [mode |-> "reschedule", matches |-> TwoMatches, courts |-> <<1>>, schedule |-> <<>>,
      config |-> CHOOSE c \in RescheduleConfigs :
                     /\ c.restTime = MaxRest /\ c.courtSetupTime = 0 /\ c.hasStartTime
                     /\ Len(c.completedMatches) = 1
                     /\ c.completedMatches[1].matchId = MatchIdList[1]
                     /\ c.completedMatches[1].actualEndTime = CurrentTime],
     [mode |-> "validate", matches |-> TwoMatches, courts |-> <<>>,
      config |-> CHOOSE c \in ValidatorConfigs : c.restTime = MaxRest,
      schedule |-> <<[matchId |-> MatchIdList[2], courtId |-> 1, startTime |-> 1,
                      endTime |-> 1 + 1, round |-> 1],
                     [matchId |-> MatchIdList[1], courtId |-> 1, startTime |-> 0,
                      endTime |-> MaxDuration, round |-> 1]>>]}

InitCalls ==
    /\ \E a \in FirstCallArguments :
          /\ mode = a.mode /\ matches = a.matches /\ courts = a.courts
          /\ config = a.config /\ schedule = a.schedule
    /\ clock = StartTime
    /\ NoPoolCall
    /\ pc = "start"
    /\ simTime = 0
    /\ teamStates = <<>>
    /\ courtStates = <<>>
    /\ remaining = <<>>
    /\ queue = <<>>
    /\ events = <<>>
    /\ result = [kind |-> "none"]

(* the next call begins: new arguments, and in scheduleMatches and
   rescheduleMatches whatever the previous call left in the locals *)
CallAgain ==
    /\ pc = "done"
    /\ \E a \in LaterCallArguments :
          /\ mode' = a.mode /\ matches' = a.matches /\ courts' = a.courts
          /\ config' = a.config
          /\ schedule' = IF a.mode = "validate" THEN a.schedule ELSE schedule
    /\ pc' = "start"
    /\ result' = [kind |-> "none"]
    /\ UNCHANGED <<poolVars, clock, simTime, teamStates, courtStates, remaining, queue, events>>

NextCalls ==
    \/ BeginSchedule
    \/ BeginReschedule
    \/ ProcessEvent
    \/ PlaceMatch
    \/ AdvanceTime
    \/ FinishSchedule
    \/ FinishReschedule
    \/ Validate
    \/ CallAgain

SpecCalls == InitCalls /\ [][NextCalls]_vars

(* what the call produces from its arguments alone *)
ResultFromArguments ==
    IF mode = "validate"
    THEN [kind |-> "report", report |-> ValidateSchedule(schedule, matches, config)]
    ELSE Outcome(mode, matches, courts, config, clock)

ArgumentsUnchanged ==
    /\ matches' = matches /\ courts' = courts /\ config' = config
    /\ mode = "validate" => schedule' = schedule

(* C22: no step of a call of scheduleMatches, rescheduleMatches or
   validateSchedule changes an argument (matches, courts, config with its
   completedMatches, the schedule given to the validator), and every call,
   whatever an earlier call left behind, ends with the result that its own
   arguments determine *)
C22_PureAndIsolated ==
    /\ [][pc # "done" => ArgumentsUnchanged]_vars
    /\ [](pc = "done" => result = ResultFromArguments)

C22_Witness ==
    /\ pc = "done" /\ mode = "schedule" /\ matches = TwoMatches
    /\ Returned /\ result = ResultFromArguments
    /\ \E t \in DOMAIN teamStates : t \in {"A", "B", "C"}

----------------------------------------------------------------------------
(* a pass placed nothing and the simulated instant moved *)
TimeAdvanced == pc = "loop" /\ pc' = "loop" /\ simTime' # simTime

SetMin(S) == CHOOSE x \in S : \A y \in S : x <= y

(* the availability timestamps of the tracked teams and courts that exceed T *)
LaterAvailabilities ==
    {x \in {teamStates[t].availableAt : t \in DOMAIN teamStates}
           \cup {courtStates[i].availableAt : i \in 1..Len(courtStates)} : x > simTime}

NextEventTimes == IF events = <<>> THEN {} ELSE {events[1].time}

(* C29: whenever a pass places no match, T advances to the minimum of the
   next pending end event's time and the smallest team or court availability
   greater than T, also while end events are pending *)
C29_TimeAdvance ==
    [][TimeAdvanced => simTime' = SetMin(NextEventTimes \cup LaterAvailabilities)]_vars

----------------------------------------------------------------------------
(* the entries of the returned schedule that had started by instant t *)
StartedBy(t) == {k \in 1..Len(result.schedule) : result.schedule[k].startTime <= t}

(* both participants of entry i are out of their earlier matches and rested at t *)
TeamsRestedAt(i, t) ==
    \A k \in StartedBy(t) \ {i} :
        ShareTeam(result.schedule[k], result.schedule[i])
            => result.schedule[k].endTime + config.restTime <= t

(* court c has no match on it at t and the setup after its last match is over *)
CourtIdleAt(c, t) ==
    \A k \in StartedBy(t) :
        result.schedule[k].courtId = c
            => result.schedule[k].endTime + config.courtSetupTime <= t

(* every dependency of entry i has an entry that ended by t *)
ReadyAt(i, t) ==
    \A d \in DepsOf(result.schedule[i].matchId) :
        \E k \in 1..Len(result.schedule) :
            result.schedule[k].matchId = d /\ result.schedule[k].endTime <= t

(* a match that precedes entry i in priority order is ready and not started at t *)
HigherPriorityWaitingAt(i, t) ==
    \E k \in 1..Len(result.schedule) :
        /\ k # i
        /\ TaskCompare(matches, result.schedule[k].matchId, result.schedule[i].matchId) < 0
        /\ ReadyAt(k, t)
        /\ result.schedule[k].startTime > t

FeasibleAt(i, t) ==
    /\ ReadyAt(i, t)
    /\ TeamsRestedAt(i, t)
    /\ \E n \in 1..Len(courts) : CourtIdleAt(courts[n], t)
    /\ ~HigherPriorityWaitingAt(i, t)

(* C23: in every schedule returned by scheduleMatches, no match has an instant
   t with startTime <= t < its start at which its dependencies had ended, both
   participants were free and rested, a court was idle with its setup time
   elapsed and no higher-priority ready match was waiting *)
C23_EarliestFeasible ==
    (Returned /\ mode = "schedule") =>
        \A i \in 1..Len(result.schedule) :
            \A t \in StartTimeOf(config, clock)..(result.schedule[i].startTime - 1) :
                ~FeasibleAt(i, t)

----------------------------------------------------------------------------
(* k >= 1 matches without dependencies, no participant in two of them, and at
   least k courts *)
IndependentMatches ==
    /\ Len(matches) >= 1
    /\ \A i \in 1..Len(matches) : matches[i].dependencies = {}
    /\ \A i, j \in 1..Len(matches) :
          i # j => TeamsOf(matches[i].id) \cap TeamsOf(matches[j].id) = {}
    /\ Len(courts) >= Len(matches)

(* C25: scheduleMatches on k dependency-free matches with pairwise disjoint
   participants and at least k courts returns a schedule in which all k
   matches start at startTime, each on a different court *)
C25_ParallelStart ==
    (pc = "done" /\ mode = "schedule" /\ IndependentMatches) =>
        /\ Returned
        /\ ExactlyOnce(result.schedule, InputIds)
        /\ \A i \in 1..Len(result.schedule) :
              result.schedule[i].startTime = StartTimeOf(config, clock)
        /\ \A i, j \in 1..Len(result.schedule) :
              i # j => result.schedule[i].courtId # result.schedule[j].courtId

C25_Witness ==
    /\ Returned /\ mode = "schedule" /\ IndependentMatches
    /\ Len(matches) = MaxCourts
    /\ Len(result.schedule) = MaxCourts
    /\ \E i \in 1..Len(matches) : matches[i].duration > 1

----------------------------------------------------------------------------
(* a pass placed a match: the schedule grew by one entry *)
Placed == pc = "loop" /\ Len(schedule') = Len(schedule) + 1

LastPlaced(sch) == sch[Len(sch)].matchId

(* a comes before b by round, then by the text of the id *)
Precedes(a, b) ==
    \/ RoundOf(matches, a) < RoundOf(matches, b)
    \/ /\ RoundOf(matches, a) = RoundOf(matches, b)
       /\ LocaleCompare(ToStr(a), ToStr(b)) < 0

(* a participant of the match is in a match or not yet available at T *)
ParticipantUnavailable(id) ==
    \E t \in TeamsOf(id) :
        /\ t \in DOMAIN teamStates
        /\ (teamStates[t].currentMatch # Null \/ teamStates[t].availableAt > simTime)

NoIdleCourt ==
    ~\E i \in 1..Len(courtStates) :
        courtStates[i].currentMatch = Null /\ courtStates[i].availableAt <= simTime

(* C30: whenever a match is placed at instant T, every ready (queued) match
   that precedes it in (round ascending, id lexicographic ascending) order had
   a participant unavailable or no idle court at T in the state of that
   moment; this holds for each placement, so after a placement the pass has
   restarted from the highest-priority ready match *)
C30_PriorityCorrectPlacement ==
    [][Placed =>
          /\ schedule'[Len(schedule')].startTime = simTime
          /\ \A k \in 1..Len(queue) :
                Precedes(queue[k], LastPlaced(schedule'))
                    => (ParticipantUnavailable(queue[k]) \/ NoIdleCourt)]_vars

(* a match has just been placed at T while a match that precedes it waits *)
C30_Witness ==
    /\ pc = "loop"
    /\ schedule # <<>>
    /\ schedule[Len(schedule)].startTime = simTime
    /\ \E k \in 1..Len(queue) : Precedes(queue[k], LastPlaced(schedule))

----------------------------------------------------------------------------
(* Knockout bracket of eight teams: quarter-finals 1..4 (round 1), semi-finals
   10 and 11 (round 2) on the winners, final 12 (round 3) *)

BracketDurations == {1, MaxDuration}

BracketMatch(id, t1, t2, r, d, deps) ==
    [id |-> id, team1 |-> t1, team2 |-> t2, round |-> r, duration |-> d, dependencies |-> deps]

Brackets ==
    {<<BracketMatch(1, "A", "B", 1, d[1], {}),
       BracketMatch(2, "C", "D", 1, d[2], {}),
       BracketMatch(3, "E", "F", 1, d[3], {}),
       BracketMatch(4, "G", "H", 1, d[4], {}),
       BracketMatch(10, "W1", "W2", 2, d[5], {1, 2}),
       BracketMatch(11, "W3", "W4", 2, d[6], {3, 4}),
       BracketMatch(12, "W10", "W11", 3, d[7], {10, 11})>> : d \in [1..7 -> BracketDurations]}

InitB ==
    /\ mode = "schedule"
    /\ matches \in Brackets
    /\ courts \in InputCourts \ {<<>>}
    /\ config \in ScheduleConfigs
    /\ clock = StartTime
    /\ InitState

SpecB == InitB /\ [][Next]_vars

(* no match of a round starts before every match of the round before has ended *)
RoundsInOrder(sch) ==
    \A i, j \in 1..Len(sch) :
        sch[j].round = sch[i].round + 1 => sch[j].startTime >= sch[i].endTime

EqualDurations == \A i, j \in 1..Len(matches) : matches[i].duration = matches[j].duration

(* C24: in the schedule returned for a knockout bracket, the earliest start
   among the matches of round r+1 is at or after the latest end among the
   matches of round r, for any number of courts *)
C24_RoundsInOrder == Returned => RoundsInOrder(result.schedule)

(* C24, amended: every bracket match starts at or after the end of the matches
   it depends on; the rounds are in order when there is a single court, or two
   courts and matches that all have the same duration *)
C24_RoundsInOrderWhenCourtsFillEvenly ==
    Returned =>
        /\ DependenciesRespected(result.schedule)
        /\ (Len(courts) = 1 \/ (Len(courts) = 2 /\ EqualDurations))
              => RoundsInOrder(result.schedule)

C24_Witness ==
    /\ Returned
    /\ Len(result.schedule) = 7
    /\ Len(courts) = 1
    /\ ~EqualDurations
    /\ config.courtSetupTime > 0

----------------------------------------------------------------------------
(* poolDistribution.ts: calculatePoolSizes, snakeSeeding,
   distributeTeamsToPools.  A team is represented by its seed. *)

MaxPools == 4
MaxPoolSize == 4
MaxTeams == MaxPools * MaxPoolSize

PoolError(message) == [kind |-> "error", message |-> message]

RECURSIVE SumSizes(_)
(* poolSizes.reduce((sum, size) => sum + size, 0) *)
SumSizes(sizes) == IF sizes = <<>> THEN 0 ELSE Head(sizes) + SumSizes(Tail(sizes))

(* variant: the last `remainder` pools get the extra team *)
CalculatePoolSizes_LargerLast(teamCount, poolCount) ==
    IF poolCount <= 0 THEN PoolError("Pool count must be greater than 0")
    ELSE IF teamCount < poolCount THEN PoolError("Not enough teams")
    ELSE LET baseSize == teamCount \div poolCount
             remainder == teamCount % poolCount
         IN [kind |-> "sizes",
             sizes |-> [i \in 1..poolCount |->
                          IF i - 1 >= poolCount - remainder THEN baseSize + 1 ELSE baseSize]]

(* calculatePoolSizes: the sizes, or the error it throws *)
CalculatePoolSizes(teamCount, poolCount) ==
    IF poolCount <= 0 THEN PoolError("Pool count must be greater than 0")
    ELSE IF teamCount < poolCount THEN PoolError("Not enough teams")
    ELSE LET baseSize == teamCount \div poolCount
             remainder == teamCount % poolCount
         IN [kind |-> "sizes",
             sizes |-> [i \in 1..poolCount |->
                          IF i - 1 < remainder THEN baseSize + 1 ELSE baseSize]]

Letters == <<"A", "B", "C", "D", "E", "F", "G", "H", "I", "J", "K", "L", "M",
             "N", "O", "P", "Q", "R", "S", "T", "U", "V", "W", "X", "Y", "Z">>

RECURSIVE LabelFrom(_, _)
(* the do-while of getPoolLabel: one letter put in front per turn *)
LabelFrom(current, label) ==
    LET next == <<Letters[(current % Len(Letters)) + 1]>> \o label
        rest == (current \div Len(Letters)) - 1
    IN IF rest >= 0 THEN LabelFrom(rest, next) ELSE next

(* getPoolLabel(index), index from 0: a sequence of letters *)
GetPoolLabel(index) == LabelFrom(index, <<>>)

(* variant: every pass goes forward *)
PoolOrder_AlwaysForward(r, poolCount) == [i \in 1..poolCount |-> i]

(* poolOrder of a pass: forward on even passes, backward on odd ones; pools
   are numbered from 1 *)
PoolOrder(r, poolCount) ==
    [i \in 1..poolCount |-> IF r % 2 = 0 THEN i ELSE poolCount + 1 - i]

RECURSIVE VisitPools_IgnoringSizes(_, _, _, _, _)
(* variant: a pool takes a team on every pass, whatever its size *)
VisitPools_IgnoringSizes(order, ps, idx, teams, sizes) ==
    IF order = <<>> \/ idx >= Len(teams) THEN [pools |-> ps, teamIndex |-> idx]
    ELSE LET poolIndex == Head(order)
         IN VisitPools_IgnoringSizes(Tail(order),
                [ps EXCEPT ![poolIndex] = Append(@, teams[idx + 1])], idx + 1, teams, sizes)

RECURSIVE VisitPools(_, _, _, _, _)
(* the for loop of one pass: one team to each pool that still needs teams *)
VisitPools(order, ps, idx, teams, sizes) ==
    IF order = <<>> \/ idx >= Len(teams) THEN [pools |-> ps, teamIndex |-> idx]
    ELSE LET poolIndex == Head(order)
         IN IF Len(ps[poolIndex]) < sizes[poolIndex]
            THEN VisitPools(Tail(order), [ps EXCEPT ![poolIndex] = Append(@, teams[idx + 1])],
                            idx + 1, teams, sizes)
            ELSE VisitPools(Tail(order), ps, idx, teams, sizes)

RECURSIVE InsertBySeed(_, _)
InsertBySeed(sorted, t) ==
    IF sorted = <<>> THEN <<t>>
    ELSE IF sorted[Len(sorted)] - t <= 0 THEN Append(sorted, t)
    ELSE Append(InsertBySeed(SubSeq(sorted, 1, Len(sorted) - 1), t), sorted[Len(sorted)])

RECURSIVE SortBySeed(_)
(* [...teams].sort((a, b) => a.seed - b.seed) *)
SortBySeed(teams) ==
    IF teams = <<>> THEN <<>>
    ELSE InsertBySeed(SortBySeed(SubSeq(teams, 1, Len(teams) - 1)), teams[Len(teams)])

(* the checks of distributeTeamsToPools before any pool is filled: the message
   of the error thrown, "" when none *)
DistributionError(teams, poolCount) ==
    IF Len(teams) = 0 THEN "Teams array cannot be empty"
    ELSE IF poolCount <= 0 THEN "Pool count must be greater than 0"
    ELSE IF Len(teams) < poolCount THEN "Not enough teams"
    ELSE IF \E i \in 1..Len(teams) : SortBySeed(teams)[i] # i THEN "Invalid seed sequence"
    ELSE ""

(* getPoolTemplate with the default config; "" when it throws *)
GetPoolTemplate(poolSize) ==
    IF poolSize = 4 THEN "Poule Brésilienne"
    ELSE IF poolSize = 3 THEN "Poule Standard 3"
    ELSE ""

RECURSIVE SizeCounts(_, _)
(* the entries of poolSizeCounts, sorted by size descending *)
SizeCounts(sizes, above) ==
    LET below == {sizes[i] : i \in 1..Len(sizes)} \cap (0..(above - 1))
    IN IF below = {} THEN <<>>
       ELSE LET size == CHOOSE x \in below : \A y \in below : y <= x
            IN <<[size |-> size,
                  count |-> Cardinality({i \in 1..Len(sizes) : sizes[i] = size})]>>
               \o SizeCounts(sizes, size)

(* the teams and sizes given to snakeSeeding by the call in progress *)
SnakeTeams ==
    IF poolArgs.fn = "snakeSeeding" THEN poolArgs.teams ELSE SortBySeed(poolArgs.teams)

SnakeSizes ==
    IF poolArgs.fn = "snakeSeeding" THEN poolArgs.poolSizes
    ELSE CalculatePoolSizes(Len(poolArgs.teams), poolArgs.poolCount).sizes

(* the PoolDistributionResult built from the filled pools *)
DistributionResult(ps, sizes, teamCount, poolCount) ==
    IF \E i \in 1..Len(ps) : GetPoolTemplate(Len(ps[i])) = ""
    THEN PoolError("Unsupported pool size")
    ELSE [kind |-> "distribution",
          pools |-> [i \in 1..Len(ps) |->
                       [poolId |-> GetPoolLabel(i - 1), teams |-> ps[i], size |-> Len(ps[i]),
                        template |-> GetPoolTemplate(Len(ps[i]))]],
          summary |-> [totalTeams |-> teamCount, totalPools |-> poolCount,
                       poolSizes |-> SizeCounts(sizes, SumSizes(sizes) + 1)]]

(* the scheduler's state, which poolDistribution.ts never touches *)
schedulerVars == <<mode, matches, courts, config, clock, simTime, teamStates, courtStates,
                   remaining, queue, events, schedule>>

(* the call begins: calculatePoolSizes returns or throws at once;
   snakeSeeding and distributeTeamsToPools throw or create the empty pools *)
BeginPools ==
    /\ pc = "start"
    /\ mode = "pools"
    /\ CASE poolArgs.fn = "calculatePoolSizes" ->
              /\ result' = CalculatePoolSizes(poolArgs.teamCount, poolArgs.poolCount)
              /\ pc' = "done"
              /\ UNCHANGED <<pools, teamIndex, round>>
         [] poolArgs.fn = "snakeSeeding" ->
              IF Len(poolArgs.teams) # SumSizes(poolArgs.poolSizes)
              THEN /\ result' = PoolError("Team count mismatch")
                   /\ pc' = "done"
                   /\ UNCHANGED <<pools, teamIndex, round>>
              ELSE /\ pools' = [i \in 1..Len(poolArgs.poolSizes) |-> <<>>]
                   /\ teamIndex' = 0
                   /\ round' = 0
                   /\ pc' = "loop"
                   /\ result' = result
         [] poolArgs.fn = "distributeTeamsToPools" ->
              IF DistributionError(poolArgs.teams, poolArgs.poolCount) # ""
              THEN /\ result' = PoolError(DistributionError(poolArgs.teams, poolArgs.poolCount))
                   /\ pc' = "done"
                   /\ UNCHANGED <<pools, teamIndex, round>>
              ELSE /\ pools' = [i \in 1..poolArgs.poolCount |-> <<>>]
                   /\ teamIndex' = 0
                   /\ round' = 0
                   /\ pc' = "loop"
                   /\ result' = result
    /\ UNCHANGED <<schedulerVars, poolArgs>>

(* one turn of `while (teamIndex < totalTeams)`: a pass over the pools *)
SnakeRound ==
    /\ pc = "loop"
    /\ mode = "pools"
    /\ teamIndex < Len(SnakeTeams)
    /\ LET pass == VisitPools(PoolOrder(round, Len(SnakeSizes)), pools, teamIndex,
                              SnakeTeams, SnakeSizes)
       IN /\ pools' = pass.pools
          /\ teamIndex' = pass.teamIndex
    /\ round' = round + 1
    /\ UNCHANGED <<schedulerVars, poolArgs, pc, result>>

(* the while loop is left: snakeSeeding returns the pools,
   distributeTeamsToPools builds its result or throws on a pool size *)
FinishPools ==
    /\ pc = "loop"
    /\ mode = "pools"
    /\ ~(teamIndex < Len(SnakeTeams))
    /\ result' = IF poolArgs.fn = "snakeSeeding" THEN [kind |-> "pools", pools |-> pools]
                 ELSE DistributionResult(pools, SnakeSizes, Len(poolArgs.teams),
                                         poolArgs.poolCount)
    /\ pc' = "done"
    /\ UNCHANGED <<schedulerVars, poolArgs, pools, teamIndex, round>>

(* Inputs of the three functions *)

SeedsTo(n) == [i \in 1..n |-> i]

CalculatePoolSizesCalls ==
    {[fn |-> "calculatePoolSizes", teamCount |-> t, poolCount |-> p] :
        t \in (0 - 1)..MaxTeams, p \in (0 - 1)..(MaxPools + 1)}

PoolSizeLists == UNION {[1..p -> 0..MaxPoolSize] : p \in 0..MaxPools}

(* as many teams as the sizes ask for; for a few size lists also one more and
   one less *)
TeamCountsFor(sizes) ==
    {SumSizes(sizes)}
        \cup IF sizes \in {<<>>, <<1>>, <<MaxPoolSize, 0>>, <<1, 1, 1>>}
             THEN {m \in {SumSizes(sizes) - 1, SumSizes(sizes) + 1} : m >= 0}
             ELSE {}

(* teams sorted by seed *)
SnakeSeedingCalls ==
    UNION {{[fn |-> "snakeSeeding", teams |-> SeedsTo(n), poolSizes |-> sizes] :
                n \in TeamCountsFor(sizes)} : sizes \in PoolSizeLists}

(* seeds 1..n in order, in reverse order, with a gap, with a seed twice *)
TeamLists ==
    UNION {{SeedsTo(n), [i \in 1..n |-> n + 1 - i]} : n \in 0..MaxTeams}
        \cup {[i \in 1..n |-> IF i = n THEN n + 1 ELSE i] : n \in 1..MaxPools}
        \cup {[i \in 1..n |-> IF i = n THEN 1 ELSE i] : n \in 2..MaxPools}

DistributeTeamsToPoolsCalls ==
    {[fn |-> "distributeTeamsToPools", teams |-> ts, poolCount |-> p] :
        ts \in TeamLists, p \in (0 - 1)..(MaxPools + 1)}

InitP ==
    /\ mode = "pools"
    /\ poolArgs \in CalculatePoolSizesCalls \cup SnakeSeedingCalls
                        \cup DistributeTeamsToPoolsCalls
    /\ pools = <<>>
    /\ teamIndex = 0
    /\ round = 0
    /\ matches = <<>>
    /\ courts = <<>>
    /\ config \in {c \in ScheduleConfigs : c.restTime = 0 /\ c.courtSetupTime = 0}
    /\ clock = StartTime
    /\ pc = "start"
    /\ simTime = 0
    /\ teamStates = NoTeams
    /\ courtStates = <<>>
    /\ remaining = <<>>
    /\ queue = <<>>
    /\ events = <<>>
    /\ schedule = <<>>
    /\ result = [kind |-> "none"]

NextP ==
    \/ BeginPools
    \/ SnakeRound
    \/ FinishPools

SpecP == InitP /\ [][NextP]_vars

----------------------------------------------------------------------------
PoolsDone(fn) == mode = "pools" /\ pc = "done" /\ poolArgs.fn = fn

(* C26: calculatePoolSizes(teamCount, poolCount) throws when poolCount <= 0 or
   teamCount < poolCount; otherwise it returns poolCount sizes that sum to
   teamCount, never increase, differ by at most 1, the first
   (teamCount mod poolCount) of them being floor(teamCount / poolCount) + 1 and
   the others floor(teamCount / poolCount) *)
C26_PoolSizes ==
    PoolsDone("calculatePoolSizes") =>
        LET teamCount == poolArgs.teamCount
            poolCount == poolArgs.poolCount
        IN IF poolCount <= 0 \/ teamCount < poolCount THEN result.kind = "error"
           ELSE /\ result.kind = "sizes"
                /\ Len(result.sizes) = poolCount
                /\ SumSizes(result.sizes) = teamCount
                /\ \A i, j \in 1..poolCount :
                      /\ i <= j => result.sizes[i] >= result.sizes[j]
                      /\ result.sizes[i] - result.sizes[j] <= 1
                /\ \A i \in 1..poolCount :
                      result.sizes[i] = IF i <= teamCount % poolCount
                                        THEN (teamCount \div poolCount) + 1
                                        ELSE teamCount \div poolCount

(* 13 teams in 4 pools: sizes 4, 3, 3, 3 *)
C26_Witness ==
    /\ PoolsDone("calculatePoolSizes")
    /\ poolArgs.teamCount = 13 /\ poolArgs.poolCount = 4
    /\ result.kind = "sizes"
    /\ result.sizes = <<4, 3, 3, 3>>

(* how many times seed t sits in the pools ps *)
Placements(ps, t) ==
    Cardinality({ij \in (1..Len(ps)) \X (1..MaxTeams) :
                    ij[2] <= Len(ps[ij[1]]) /\ ps[ij[1]][ij[2]] = t})

EqualSizes(sizes) == sizes # <<>> /\ \A i, j \in 1..Len(sizes) : sizes[i] = sizes[j]

(* zig-zag: the team at position k (from 0) is the (pass + 1)-th team of pool
   k mod p on even passes and of pool p - 1 - (k mod p) on odd passes,
   pass = floor(k / p); pools are counted from 0 here *)
ZigZag(ps, teams) ==
    LET p == Len(ps)
    IN \A k \in 0..(Len(teams) - 1) :
          LET pass == k \div p
              pool == IF pass % 2 = 0 THEN k % p ELSE p - 1 - (k % p)
          IN /\ pass + 1 <= Len(ps[pool + 1])
             /\ ps[pool + 1][pass + 1] = teams[k + 1]

SnakePass == mode = "pools" /\ poolArgs.fn = "snakeSeeding" /\ pc = "loop" /\ round' # round

(* C27: snakeSeeding(teams, poolSizes), for teams sorted by seed and poolSizes
   summing to the team count, terminates (every pass of its loop places at
   least one team and the loop is left once all are placed) and returns pools
   in which every team sits exactly once and pool i has exactly poolSizes[i]
   teams; when all pools have the same size the teams are placed in zig-zag *)
C27_SnakeSeeding ==
    /\ [][SnakePass => (teamIndex < teamIndex' /\ teamIndex' <= Len(poolArgs.teams))]_vars
    /\ []((mode = "pools" /\ poolArgs.fn = "snakeSeeding" /\ pc = "loop")
              => (teamIndex <= Len(poolArgs.teams) /\ ENABLED <<NextP>>_vars))
    /\ []((PoolsDone("snakeSeeding")
             /\ Len(poolArgs.teams) = SumSizes(poolArgs.poolSizes)) =>
           /\ result.kind = "pools"
           /\ Len(result.pools) = Len(poolArgs.poolSizes)
           /\ \A t \in Range(poolArgs.teams) : Placements(result.pools, t) = 1
           /\ \A i \in 1..Len(result.pools) : Len(result.pools[i]) = poolArgs.poolSizes[i]
           /\ EqualSizes(poolArgs.poolSizes) => ZigZag(result.pools, poolArgs.teams))

(* 16 teams in 4 pools of 4: pool A has seeds 1, 8, 9, 16 *)
C27_Witness ==
    /\ PoolsDone("snakeSeeding")
    /\ result.kind = "pools"
    /\ poolArgs.poolSizes = <<4, 4, 4, 4>>
    /\ result.pools[1] = <<1, 8, 9, 16>>

(* distributeTeamsToPools was called with 10 teams seeded 1..10 and 3 pools *)
RegionalCall ==
    /\ PoolsDone("distributeTeamsToPools")
    /\ Len(poolArgs.teams) = 10
    /\ Range(poolArgs.teams) = 1..10
    /\ poolArgs.poolCount = 3

(* the seeds of the pools of the result, pool A first *)
PoolSeeds == [i \in 1..Len(result.pools) |-> result.pools[i].teams]

(* C28: distributeTeamsToPools with 10 teams seeded 1..10 and 3 pools yields
   Pool A with seeds [1, 6, 7], Pool B with seeds [2, 5, 8, 10] and Pool C
   with seeds [3, 4, 9] *)
C28_RegionalExample ==
    RegionalCall =>
        /\ result.kind = "distribution"
        /\ PoolSeeds = <<<<1, 6, 7>>, <<2, 5, 8, 10>>, <<3, 4, 9>>>>

(* C28, amended: the tenth seed goes to Pool A, the pool of four: Pool A has
   seeds [1, 6, 7, 10], Pool B [2, 5, 8] and Pool C [3, 4, 9] *)
C28_RegionalExampleLargerPoolFirst ==
    RegionalCall =>
        /\ result.kind = "distribution"
        /\ PoolSeeds = <<<<1, 6, 7, 10>>, <<2, 5, 8>>, <<3, 4, 9>>>>
        /\ [i \in 1..3 |-> result.pools[i].poolId] = <<<<"A">>, <<"B">>, <<"C">>>>
        /\ result.summary.poolSizes = <<[size |-> 4, count |-> 1], [size |-> 3, count |-> 2]>>

C28_Witness ==
    /\ RegionalCall
    /\ poolArgs.teams[1] = 10
    /\ result.kind = "distribution"
    /\ result.pools[1].size = 4
    /\ round = 4

----------------------------------------------------------------------------
(* C31: after every enqueue and every remove the ready queue is sorted by
   round ascending and, within a round, by the text of the match id ascending:
   no task of the queue comes after a task that it precedes *)
C31_QueueSorted ==
    \A i, j \in 1..Len(queue) : i < j => Precedes(queue[i], queue[j])

(* two matches unlocked by the same end event, 2 before 10 in the input, wait
   in the queue as 10, 2 *)
C31_Witness ==
    /\ pc = "loop"
    /\ schedule # <<>>
    /\ queue = <<10, 2>>
    /\ DepsOf(10) # {} /\ DepsOf(2) # {}

----------------------------------------------------------------------------
(* how many times id sits in the ready queue q / has an entry in sch *)
TimesQueued(q, id) == Cardinality({k \in 1..Len(q) : q[k] = id})

TimesPlaced(sch, id) == Cardinality({k \in 1..Len(sch) : sch[k].matchId = id})

(* the three stages of a match: Idle (neither), Ready (queued), Placed *)
IsReady(q, id) == TimesQueued(q, id) > 0

IsPlaced(sch, id) == TimesPlaced(sch, id) > 0

(* the end event being processed is the one of the last unmet dependency of id *)
LastDependencyEnds(id) ==
    /\ pc = "loop"
    /\ EventDue
    /\ id \in DOMAIN remaining
    /\ remaining[id] = {events[1].matchId}

(* C32: in scheduleMatches each match moves Idle -> Ready -> Placed at most
   once: it is never in the ready queue twice nor queued and placed at once;
   it enters the queue at initialisation exactly when it has no dependency and
   otherwise only when its last unmet dependency completes; it leaves the
   queue exactly at the step that places it; once placed it stays placed,
   with one entry, and never returns to the queue *)
C32_MatchLifecycle ==
    /\ [](mode = "schedule" =>
            \A id \in InputIds :
                TimesQueued(queue, id) + TimesPlaced(schedule, id) <= 1)
    /\ [][mode = "schedule" =>
            \A id \in InputIds :
                /\ (pc = "start" /\ pc' # "done") =>
                      (IsReady(queue', id) <=> DepsOf(id) = {})
                /\ (~IsReady(queue, id) /\ IsReady(queue', id)) =>
                      /\ ~IsPlaced(schedule, id)
                      /\ IF pc = "start" THEN DepsOf(id) = {} ELSE LastDependencyEnds(id)
                /\ (IsReady(queue, id) /\ ~IsReady(queue', id)) =>
                      (~IsPlaced(schedule, id) /\ IsPlaced(schedule', id))
                /\ (~IsPlaced(schedule, id) /\ IsPlaced(schedule', id)) =>
                      (IsReady(queue, id) /\ ~IsReady(queue', id))
                /\ IsPlaced(schedule, id) =>
                      (TimesPlaced(schedule', id) = 1 /\ ~IsReady(queue', id))]_vars

(* a match with two dependencies has been unlocked and placed *)
C32_Witness ==
    /\ mode = "schedule" /\ pc = "loop"
    /\ \E id \in InputIds : Cardinality(DepsOf(id)) = 2 /\ IsPlaced(schedule, id)
    /\ \E id \in InputIds : DepsOf(id) = {} /\ IsPlaced(schedule, id)

----------------------------------------------------------------------------
(* an end event is taken off the event list *)
EventProcessed == pc = "loop" /\ Len(events') < Len(events)

(* the tracked matches that declare a dependency on id *)
DependentsOf(id) == {d \in DOMAIN remaining : id \in DepsOf(d)}

(* C33: processing the end event of a match that ends at e sets its court to
   no current match with availability e + courtSetupTime and each of its two
   participants to no current match with availability e + restTime, takes the
   match out of the unmet-dependency set of each dependent and enqueues
   exactly the dependents whose set became empty; every other court, team and
   unmet-dependency set is left as it was *)
C33_EventProcessing ==
    [][EventProcessed =>
          LET ev == events[1]
              participants == {ev.team1Id, ev.team2Id}
          IN /\ events' = Tail(events)
             /\ Len(courtStates') = Len(courtStates)
             /\ \A i \in 1..Len(courtStates) :
                   courtStates'[i] =
                       IF courtStates[i].courtId = ev.courtId
                       THEN [courtId |-> ev.courtId, currentMatch |-> Null,
                             availableAt |-> ev.time + config.courtSetupTime]
                       ELSE courtStates[i]
             /\ DOMAIN teamStates' = DOMAIN teamStates \cup participants
             /\ \A t \in DOMAIN teamStates' :
                   teamStates'[t] =
                       IF t \in participants
                       THEN [currentMatch |-> Null, availableAt |-> ev.time + config.restTime]
                       ELSE teamStates[t]
             /\ DOMAIN remaining' = DOMAIN remaining
             /\ \A d \in DOMAIN remaining :
                   remaining'[d] = IF d \in DependentsOf(ev.matchId)
                                   THEN remaining[d] \ {ev.matchId}
                                   ELSE remaining[d]
             /\ Range(queue') =
                   Range(queue) \cup {d \in DependentsOf(ev.matchId) :
                                         remaining[d] # {} /\ remaining'[d] = {}}
             /\ Len(queue') =
                   Len(queue) + Cardinality({d \in DependentsOf(ev.matchId) :
                                                remaining[d] # {} /\ remaining'[d] = {}})
             /\ schedule' = schedule /\ simTime' = simTime]_vars

(* match 1 has ended: its dependent 2 waits in the queue, its dependent 10
   still waits for match 2 *)
C33_Witness ==
    /\ mode = "schedule" /\ pc = "loop"
    /\ {2, 10} \subseteq InputIds
    /\ config.restTime > 0 /\ config.courtSetupTime > 0
    /\ DepsOf(2) = {1} /\ DepsOf(10) = {1, 2}
    /\ 2 \in Range(queue)
    /\ remaining[10] = {2}
    /\ \E t \in DOMAIN teamStates :
          teamStates[t].currentMatch = Null /\ teamStates[t].availableAt > simTime

----------------------------------------------------------------------------
(* the pending matches whose every dependency is the id of a completed match *)
SatisfiedPending == {id \in PendingIds : DepsOf(id) \subseteq CompletedMatchIds(config)}

(* rescheduleMatches has passed its checks and is about to enter its loop *)
SimulationStarts == mode = "reschedule" /\ pc = "start" /\ pc' # "done"

(* C34: at the start of the rescheduleMatches simulation the ready queue holds
   exactly the pending matches whose every dependency is the id of a completed
   match (the pending matches without dependency among them), each once, and
   no other match *)
C34_SeededQueue ==
    [][SimulationStarts =>
          /\ Range(queue') = SatisfiedPending
          /\ Len(queue') = Cardinality(SatisfiedPending)
          /\ events' = <<>>]_vars

(* just seeded: a match whose dependencies are all completed is queued, and
   another pending match is not *)
C34_Witness ==
    /\ mode = "reschedule" /\ pc = "loop"
    /\ events = <<>> /\ simTime = config.currentTime
    /\ Len(schedule) = Len(config.completedMatches)
    /\ Range(queue) = SatisfiedPending
    /\ \E id \in Range(queue) : DepsOf(id) # {}
    /\ PendingIds \ Range(queue) # {}

----------------------------------------------------------------------------
(* Timeline painting: completed matches that share a team and a court *)

(* reports of matches already played: both involve team A, end times differ *)
PaintedChoices(i) ==
    IF i = 1
    THEN {[matchId |-> MatchIdList[1], courtId |-> 1, actualStartTime |-> StartTime,
           actualEndTime |-> e, team1Id |-> "A", team2Id |-> "B"] :
            e \in (CurrentTime - 1)..CurrentTime}
    ELSE {[matchId |-> MatchIdList[2], courtId |-> c, actualStartTime |-> StartTime,
           actualEndTime |-> e, team1Id |-> "C", team2Id |-> "A"] :
            c \in 1..MaxCourts, e \in (CurrentTime - 1)..CurrentTime}

PaintedLists ==
    {<<>>}
    \cup {<<a>> : a \in PaintedChoices(1)}
    \cup {<<b>> : b \in PaintedChoices(2)}
    \cup {<<a, b>> : a \in PaintedChoices(1), b \in PaintedChoices(2)}
    \cup {<<b, a>> : a \in PaintedChoices(1), b \in PaintedChoices(2)}

PaintConfigs ==
    {[restTime |-> r, startTime |-> StartTime, courtSetupTime |-> s,
      currentTime |-> CurrentTime, hasStartTime |-> h, completedMatches |-> cl] :
        r \in RestTimes, s \in SetupTimes, h \in BOOLEAN, cl \in PaintedLists}

InitPaint ==
    /\ mode = "reschedule"
    /\ matches \in RInputMatches
    /\ courts \in InputCourts
    /\ config \in PaintConfigs
    /\ clock = CurrentTime
    /\ InitState

SpecPaint == InitPaint /\ [][NextR]_vars

SetMax(S) == CHOOSE x \in S : \A y \in S : y <= x

CompletedRecords == {config.completedMatches[k] : k \in 1..Len(config.completedMatches)}

PlayedOn(courtId) == {c \in CompletedRecords : c.courtId = courtId}

PlayedBy(team) == {c \in CompletedRecords : team \in {c.team1Id, c.team2Id}}

CompletedParticipants == UNION {{c.team1Id, c.team2Id} : c \in CompletedRecords}

Reorderings(list) ==
    {[k \in 1..Len(list) |-> list[p[k]]] :
        p \in {q \in [1..Len(list) -> 1..Len(list)] :
                  \A a, b \in 1..Len(list) : a # b => q[a] # q[b]}}

(* C35: when the rescheduling simulation starts, every court is idle and
   available at the latest (actualEndTime + courtSetupTime) over the completed
   matches played on it, and never before its initial value (startTime, or
   currentTime without one); every team of a completed match is idle and
   available at the latest (actualEndTime + restTime) over the completed
   matches it played, and never before currentTime; no other team is tracked.
   The returned result is the same for every order of completedMatches. *)
C35_TimelinePainting ==
    /\ [][SimulationStarts =>
            /\ Len(courtStates') = Len(courts)
            /\ \A i \in 1..Len(courts) :
                  /\ courtStates'[i].courtId = courts[i]
                  /\ courtStates'[i].currentMatch = Null
                  /\ courtStates'[i].availableAt =
                        SetMax({StartOrCurrent(config)}
                               \cup {c.actualEndTime + config.courtSetupTime :
                                        c \in PlayedOn(courts[i])})
            /\ DOMAIN teamStates' = CompletedParticipants
            /\ \A t \in CompletedParticipants :
                  /\ teamStates'[t].currentMatch = Null
                  /\ teamStates'[t].availableAt =
                        SetMax({config.currentTime}
                               \cup {c.actualEndTime + config.restTime :
                                        c \in PlayedBy(t)})]_vars
    /\ [](pc = "done" =>
            \A p \in Reorderings(config.completedMatches) :
                result = Outcome("reschedule", matches, courts,
                                 [config EXCEPT !.completedMatches = p], clock))

(* two completed matches of one team on one court, the one listed first ended
   last, and the pending final was placed after the painted rest *)
C35_Witness ==
    /\ Returned
    /\ Len(config.completedMatches) = 2
    /\ config.restTime > 0
    /\ config.completedMatches[1].courtId = config.completedMatches[2].courtId
    /\ config.completedMatches[1].actualEndTime > config.completedMatches[2].actualEndTime
    /\ \E k \in 1..Len(result.schedule) : result.schedule[k].startTime > CurrentTime

----------------------------------------------------------------------------
(* the court of courtStates on which the entry was placed *)
CourtIndexOf(entry) == CHOOSE i \in 1..Len(courtStates) : courtStates[i].courtId = entry.courtId

(* findAvailableCourt offers the earliest court because none is idle at T *)
FallbackOffered == NoIdleCourt /\ FindAvailableCourt(simTime, courtStates).court # Null

(* C36: every placement at instant T records the start time T and leaves T
   unchanged, and the court it takes had no current match and an availableAt
   at or before T when it was taken; no placement happens while
   findAvailableCourt can only offer its earliest-available fallback *)
C36_PlacedAtSimulatedInstant ==
    [][Placed =>
        LET entry == schedule'[Len(schedule')]
            i == CourtIndexOf(entry)
        IN /\ entry.startTime = simTime
           /\ simTime' = simTime
           /\ entry.courtId \in Range(courts)
           /\ courtStates[i].currentMatch = Null
           /\ courtStates[i].availableAt <= simTime
           /\ courtStates'[i].currentMatch = entry.matchId
           /\ ~FallbackOffered]_vars

(* after a placement, a queued match has its teams free at T while the only
   court findAvailableCourt can offer is the fallback *)
C36_Witness ==
    /\ pc = "loop"
    /\ ~EventDue
    /\ schedule # <<>>
    /\ FallbackOffered
    /\ \E k \in 1..Len(queue) :
          AreTeamsAvailable(MatchById(matches, queue[k]), simTime, teamStates)

----------------------------------------------------------------------------
(* a placement pass is about to look at the queue: the due events are flushed *)
PassStarts == pc = "loop" /\ ~EventDue

EventsNaming(courtId) == {k \in 1..Len(events) : events[k].courtId = courtId}

PlayingTeams == UNION {{events[k].team1Id, events[k].team2Id} : k \in 1..Len(events)}

(* C37: whenever a placement pass starts at instant T, every pending
   completion event has a time after T; a court has a current match exactly
   when one pending event names it, and then the court's availableAt is that
   event's time and its current match is that event's match; a team has a
   current match exactly when it plays in a match with a pending event; and
   there are never more pending events than courts *)
C37_PendingEventsMatchBusyState ==
    PassStarts =>
        /\ \A k \in 1..Len(events) : events[k].time > simTime
        /\ \A i \in 1..Len(courtStates) :
              /\ Cardinality(EventsNaming(courtStates[i].courtId)) <= 1
              /\ courtStates[i].currentMatch # Null
                    <=> EventsNaming(courtStates[i].courtId) # {}
              /\ \A k \in EventsNaming(courtStates[i].courtId) :
                    /\ courtStates[i].availableAt = events[k].time
                    /\ courtStates[i].currentMatch = events[k].matchId
        /\ \A k \in 1..Len(events) : events[k].courtId \in Range(courts)
        /\ \A t \in DOMAIN teamStates :
              teamStates[t].currentMatch # Null <=> t \in PlayingTeams
        /\ PlayingTeams \subseteq DOMAIN teamStates
        /\ Len(events) <= Len(courts)

(* a pass starts while one match is being played, another court is in setup
   after a finished match, and a team of the finished match is resting *)
C37_Witness ==
    /\ mode = "schedule"
    /\ PassStarts
    /\ Len(events) = 1
    /\ \E i \in 1..Len(courtStates) :
          courtStates[i].currentMatch = Null /\ courtStates[i].availableAt > simTime
    /\ \E t \in DOMAIN teamStates :
          teamStates[t].currentMatch = Null /\ teamStates[t].availableAt > simTime
    /\ \E i \in 1..Len(schedule) : schedule[i].endTime <= simTime

----------------------------------------------------------------------------
(* a pass placed nothing, no completion event is pending, matches are ready *)
Stalled ==
    /\ pc = "loop"
    /\ events = <<>>
    /\ queue # <<>>
    /\ \A i \in 1..Len(queue) : ~Placeable(i)

LaterAvailability ==
    \/ \E t \in DOMAIN teamStates :
          teamStates[t].availableAt > simTime /\ teamStates[t].availableAt < MaxDate
    \/ \E i \in 1..Len(courtStates) :
          courtStates[i].availableAt > simTime /\ courtStates[i].availableAt < MaxDate

DeadlockMessages ==
    {"Scheduling deadlock detected", "Scheduling deadlock detected in reschedule mode"}

(* C38: scheduleMatches and rescheduleMatches never end with a 'Scheduling
   deadlock detected' error: whenever a pass has placed nothing, no completion
   event is pending and a match is ready, some team or court has an
   availableAt after T for the time to advance to, and a run that passed the
   input validation and fails does so with the final 'Failed to schedule all
   matches' / 'Failed to reschedule all pending matches' error *)
C38_NoDeadlockError ==
    /\ Stalled => LaterAvailability
    /\ (pc = "done" /\ result.kind = "error") => result.message \notin DeadlockMessages
    /\ (pc = "done" /\ result.kind = "error" /\ ConfigurationError(matches, courts) = "") =>
          result.message = IF mode = "schedule" THEN "Failed to schedule all matches"
                           ELSE "Failed to reschedule all pending matches"

(* a ready match waits only for a resting team: every court is idle at T *)
C38_Witness ==
    /\ Stalled
    /\ \A i \in 1..Len(courtStates) :
          courtStates[i].currentMatch = Null /\ courtStates[i].availableAt <= simTime
    /\ \E t \in DOMAIN teamStates : teamStates[t].availableAt > simTime

----------------------------------------------------------------------------
(* positions, in the input courts list, of the courts idle at T *)
IdleCourts ==
    {i \in 1..Len(courtStates) :
        courtStates[i].currentMatch = Null /\ courtStates[i].availableAt <= simTime}

(* C39: the court states keep the order of the input courts list, and a
   placed match gets the first court of that list that has no current match
   and an availableAt at or before T: every earlier court of the list is busy
   or still in setup at T *)
C39_FirstIdleCourt ==
    /\ [](pc \in {"loop", "verify"} =>
            /\ Len(courtStates) = Len(courts)
            /\ \A i \in 1..Len(courts) : courtStates[i].courtId = courts[i])
    /\ [][Placed =>
            LET entry == schedule'[Len(schedule')]
            IN /\ IdleCourts # {}
               /\ entry.courtId = courts[SetMin(IdleCourts)]
               /\ \A j \in 1..Len(courts) :
                     (courts[j] = entry.courtId) =>
                        \A k \in 1..(j - 1) :
                            \/ courtStates[k].currentMatch # Null
                            \/ courtStates[k].availableAt > simTime]_vars

(* the second court of the list holds a match that started while the first
   court was in setup *)
C39_Witness ==
    /\ pc = "loop"
    /\ Len(courtStates) = 2
    /\ courtStates[2].currentMatch # Null
    /\ courtStates[1].currentMatch = Null
    /\ \E k \in 1..Len(schedule) :
          /\ schedule[k].matchId = courtStates[2].currentMatch
          /\ schedule[k].startTime = simTime
          /\ courtStates[1].availableAt > simTime

----------------------------------------------------------------------------
(* the configurations of rescheduleMatches that restart the tournament of the
   scheduleMatches call: nothing completed, currentTime at its startTime, the
   startTime itself given or left out *)
RestartConfigs ==
    {[restTime |-> config.restTime, startTime |-> StartTimeOf(config, clock),
      courtSetupTime |-> config.courtSetupTime,
      currentTime |-> StartTimeOf(config, clock), hasStartTime |-> h,
      completedMatches |-> <<>>] : h \in BOOLEAN}

(* C40: when scheduleMatches returns, rescheduleMatches on the same matches,
   courts, restTime and courtSetupTime, with no completed match and
   currentTime equal to the startTime, returns the same schedule (same
   entries in the same order) and the same summary; when scheduleMatches
   throws, that call of rescheduleMatches throws as well *)
C40_RescheduleEverything ==
    (mode = "schedule" /\ pc = "done") =>
        \A cfg \in RestartConfigs :
            LET again == Outcome("reschedule", matches, courts, cfg, clock)
            IN /\ result.kind = "ok" =>
                    /\ again.kind = "ok"
                    /\ again.schedule = result.schedule
                    /\ again.summary = result.summary
               /\ result.kind = "error" => again.kind = "error"

(* a returned schedule of three matches, one of them unlocked by another, on
   two courts with rest and setup time *)
C40_Witness ==
    /\ mode = "schedule"
    /\ Returned
    /\ Len(result.schedule) = 3
    /\ result.summary.courtsUsed = 2
    /\ config.restTime > 0
    /\ config.courtSetupTime > 0
    /\ \E i \in 1..Len(matches) : matches[i].dependencies # {}

============================================================================
